---- MODULE Spec2Model ----
(***************************************************************************)
(* Deck-code codec, deck aggregation and deck operations of the KCG deck   *)
(* maker.                                                                  *)
(*                                                                         *)
(* A JavaScript string is modelled as a sequence of one-character strings, *)
(* so that indexOf, substring, slice, split, trim and the regular          *)
(* expression of the card-identifier grammar are computed character by     *)
(* character, as the code does.                                            *)
(***************************************************************************)
EXTENDS Integers, Sequences, FiniteSets, TLC

VARIABLES
    pc,          \* position of the scenario that is running
    cardIds,     \* argument of encodeKcgDeckCode
    kcgCode,     \* outcome of encodeKcgDeckCode(cardIds)
    rawCode,     \* argument of decodeKcgDeckCode
    kcgDecoded,  \* outcome of decodeKcgDeckCode(rawCode)
    slashCode,   \* argument of decodeDeckCode
    catalog,     \* availableCards
    slashResult, \* outcome of decodeDeckCode(slashCode, catalog)
    adapterResult, \* outcome of toDeckCardsFromCardIds(split(trim(slashCode)), catalog)
    deckCards,   \* the deck the deck operations act on
    lastOp,      \* the last deck operation and whether it threw
    isSaving,    \* export store: an export is running
    exportCalls, \* position of each saveDeckAsJpeg call
    isLoading,   \* cards store: a load is running
    error,       \* cards store: the error of the last load, "none" for null
    availableCount, \* cards store: availableCards.length
    initCalls,   \* position of each initializeApp call
    initLog,     \* what each initializeDeck call was given, in call order
    runDigits,   \* one run of numericString: numericString.substring(d, d + 3)
    runBits,     \* the 10 bits the encoder emits for the run
    runNVal,     \* nVal of the decoder for these 10 bits
    deckCardsStorage, \* local storage (deckCards_k): the saved list of {id, count}
    loadedState, \* deck store: type of the state initializeDeck computed
    importDeckCode,    \* deck-code store: the code to import
    showDeckCodeModal, \* deck-code store: the modal is shown
    slashDeckCode,     \* deck-code store: the generated slash code
    kcgDeckCode,       \* deck-code store: the generated KCG code
    codeError,         \* deck-code store: type of error, "none" for null
    lastCall,          \* the store function that returned last, and how
    generatedFor,      \* the deck as it was at the last generateDeckCodes
    storeSteps,        \* number of store functions called so far
    suppressSave,      \* deck store: the flag the save watchers test
    deckName,          \* deck store: the name of the deck
    deckNameStorage,   \* local storage: the saved name
    queuedJobs,        \* scheduler: per watcher, the function whose change queued its job
    seenName,          \* the deckName watcher's old value
    debounced,         \* per debounced save, its pending call
    lastSave           \* the debounced save that ran last, and for whose change

\* the variables of the codec and deck scenarios, and those of the stores
\* with asynchronous actions
codecVars == <<pc, cardIds, kcgCode, rawCode, kcgDecoded, slashCode, catalog,
               slashResult, adapterResult, deckCards, lastOp>>
asyncVars == <<isSaving, exportCalls, isLoading, error, availableCount,
               initCalls, initLog>>
packVars == <<runDigits, runBits, runNVal>>
codeStoreVars == <<importDeckCode, showDeckCodeModal, slashDeckCode, kcgDeckCode,
                   codeError, lastCall, generatedFor, storeSteps>>
saveVars == <<suppressSave, deckName, deckNameStorage, queuedJobs, seenName,
              debounced, lastSave>>
storeVars == <<deckCardsStorage, loadedState, codeStoreVars, saveVars>>

vars == <<pc, cardIds, kcgCode, rawCode, kcgDecoded, slashCode, catalog,
          slashResult, adapterResult, deckCards, lastOp,
          isSaving, exportCalls, isLoading, error, availableCount,
          initCalls, initLog, runDigits, runBits, runNVal,
          deckCardsStorage, loadedState,
          importDeckCode, showDeckCodeModal, slashDeckCode, kcgDeckCode,
          codeError, lastCall, generatedFor, storeSteps,
          suppressSave, deckName, deckNameStorage, queuedJobs, seenName,
          debounced, lastSave>>

\* no run is being packed
PackIdle ==
    /\ runDigits = <<>>
    /\ runBits = <<>>
    /\ runNVal = 0

\* the deck-code store as it is created
CodeStoreIdle ==
    /\ importDeckCode = <<>>
    /\ showDeckCodeModal = FALSE
    /\ slashDeckCode = <<>>
    /\ kcgDeckCode = <<>>
    /\ codeError = "none"
    /\ lastCall = [fn |-> "none", arg |-> <<>>, format |-> "none",
                    path |-> "none", decoded |-> <<>>]
    /\ generatedFor = <<>>
    /\ storeSteps = 0

\* DEFAULT_DECK_NAME (utils/storage.ts), a name of six Japanese characters;
\* it is held as three letters, as only its being non-blank matters
DEFAULT_DECK_NAME == <<"N", "e", "w">>

\* no watcher job queued, no debounced save pending
NoJobs == [deckCards |-> "none", deckName |-> "none"]
NoTimer == [pending |-> FALSE, args |-> <<>>, origin |-> "none"]
NoTimers == [deckCards |-> NoTimer, deckName |-> NoTimer]

\* the deck store as it is created, apart from its deck
SaveIdle ==
    /\ suppressSave = FALSE
    /\ deckName = DEFAULT_DECK_NAME
    /\ seenName = DEFAULT_DECK_NAME
    /\ queuedJobs = NoJobs
    /\ debounced = NoTimers
    /\ lastSave = [key |-> "none", origin |-> "none"]

\* nothing saved, no deck loaded
StoreIdle ==
    /\ deckCardsStorage = <<>>
    /\ deckNameStorage = DEFAULT_DECK_NAME
    /\ loadedState = "none"
    /\ CodeStoreIdle
    /\ SaveIdle

\* the stores before any saveDeckAsJpeg or initializeApp call
AsyncIdle ==
    /\ isSaving = FALSE
    /\ exportCalls = <<>>
    /\ isLoading = FALSE
    /\ error = "none"
    /\ availableCount = 0
    /\ initCalls = <<>>
    /\ initLog = <<>>

-----------------------------------------------------------------------------
(* String helpers (JavaScript semantics on sequences of characters)        *)

Digits == <<"0", "1", "2", "3", "4", "5", "6", "7", "8", "9">>
UpperLetters ==
    {"A", "B", "C", "D", "E", "F", "G", "H", "I", "J", "K", "L", "M",
     "N", "O", "P", "Q", "R", "S", "T", "U", "V", "W", "X", "Y", "Z"}

IsDigit(ch) == \E i \in 1..10 : Digits[i] = ch
DigitVal(ch) == (CHOOSE i \in 1..10 : Digits[i] = ch) - 1

\* the value parseInt and the arithmetic on it yield for "not a number"
NaN == -100000
IsNaN(x) == x = NaN

\* s.indexOf(x): 0-based position of the first x, -1 when there is none
IndexOf(s, x) ==
    IF \E i \in 1..Len(s) : s[i] = x
    THEN (CHOOSE i \in 1..Len(s) : s[i] = x /\ \A j \in 1..(i - 1) : s[j] # x) - 1
    ELSE -1

\* s.substring(from, to) with 0-based from <= to, both clamped to 0..length
Substring(s, from, to) ==
    LET a == IF from > Len(s) THEN Len(s) ELSE IF from < 0 THEN 0 ELSE from
        b == IF to > Len(s) THEN Len(s) ELSE IF to < 0 THEN 0 ELSE to
    IN  IF a >= b THEN <<>> ELSE SubSeq(s, a + 1, b)

RECURSIVE Concat(_)
Concat(ss) == IF ss = <<>> THEN <<>> ELSE Head(ss) \o Concat(Tail(ss))

RECURSIVE Repeat(_, _)
Repeat(x, n) == IF n <= 0 THEN <<>> ELSE <<x>> \o Repeat(x, n - 1)

\* n.toString() of a non-negative integer
RECURSIVE NatToString(_)
NatToString(n) ==
    IF n < 10 THEN <<Digits[n + 1]>>
    ELSE NatToString(n \div 10) \o <<Digits[(n % 10) + 1]>>

\* n.toString() of a number: "NaN", a minus sign for negatives
NumToString(n) ==
    IF IsNaN(n) THEN <<"N", "a", "N">>
    ELSE IF n < 0 THEN <<"-">> \o NatToString(0 - n)
    ELSE NatToString(n)

\* parseInt(s, 10) of a string: leading decimal digits, NaN when there are none
RECURSIVE DigitsValue(_)
DigitsValue(s) ==
    IF s = <<>> THEN 0 ELSE DigitsValue(SubSeq(s, 1, Len(s) - 1)) * 10 + DigitVal(s[Len(s)])

ParseInt(s) ==
    LET n == IF \A i \in 1..Len(s) : IsDigit(s[i]) THEN Len(s)
             ELSE (CHOOSE i \in 1..Len(s) : ~IsDigit(s[i]) /\ \A j \in 1..(i - 1) : IsDigit(s[j])) - 1
    IN  IF n = 0 THEN NaN ELSE DigitsValue(SubSeq(s, 1, n))

\* n.toString(2).padStart(w, "0") for 0 <= n < 2^w
RECURSIVE ToBinary(_, _)
ToBinary(n, w) ==
    IF w = 0 THEN <<>> ELSE ToBinary(n \div 2, w - 1) \o <<Digits[(n % 2) + 1]>>

\* parseInt(s, 2) of a string of "0" and "1"
RECURSIVE ParseBinary(_)
ParseBinary(s) ==
    IF s = <<>> THEN 0 ELSE ParseBinary(SubSeq(s, 1, Len(s) - 1)) * 2 + DigitVal(s[Len(s)])

IsSpace(ch) == ch \in {" ", "\t", "\n"}

\* s.trim()
RECURSIVE TrimStart(_)
TrimStart(s) == IF s # <<>> /\ IsSpace(Head(s)) THEN TrimStart(Tail(s)) ELSE s
RECURSIVE TrimEnd(_)
TrimEnd(s) == IF s # <<>> /\ IsSpace(s[Len(s)]) THEN TrimEnd(SubSeq(s, 1, Len(s) - 1)) ELSE s
Trim(s) == TrimEnd(TrimStart(s))

\* s.split("/")
RECURSIVE SplitSlash(_)
SplitSlash(s) ==
    LET i == IndexOf(s, "/")
    IN  IF i = -1 THEN <<s>>
        ELSE <<Substring(s, 0, i)>> \o SplitSlash(Substring(s, i + 1, Len(s)))

\* mutant of JoinSlash: every element is followed by a "/"
JoinSlash_trailing(ss) == Concat([k \in 1..Len(ss) |-> ss[k] \o <<"/">>])

\* ids.join("/")
RECURSIVE JoinSlash(_)
JoinSlash(ss) ==
    IF ss = <<>> THEN <<>>
    ELSE IF Len(ss) = 1 THEN ss[1]
    ELSE ss[1] \o <<"/">> \o JoinSlash(Tail(ss))

StartsWith(s, p) == Len(s) >= Len(p) /\ SubSeq(s, 1, Len(p)) = p
EndsWith(s, p) == Len(s) >= Len(p) /\ SubSeq(s, Len(s) - Len(p) + 1, Len(s)) = p
Includes(s, p) == \E i \in 1..(Len(s) - Len(p) + 1) : SubSeq(s, i, i + Len(p) - 1) = p

\* mutant of FirstOccurrences: the distinct elements in order of last
\* occurrence
RECURSIVE LastOccurrences(_)
LastOccurrences(s) ==
    IF s = <<>> THEN <<>>
    ELSE LET rest == Tail(s)
             d == LastOccurrences(rest)
         IN  IF \E j \in 1..Len(rest) : rest[j] = Head(s) THEN d ELSE <<Head(s)>> \o d

\* distinct elements of s in order of first occurrence (Map / object key order)
RECURSIVE FirstOccurrences(_)
FirstOccurrences(s) ==
    IF s = <<>> THEN <<>>
    ELSE LET init == SubSeq(s, 1, Len(s) - 1)
             d == FirstOccurrences(init)
         IN  IF \E j \in 1..Len(init) : init[j] = s[Len(s)] THEN d ELSE Append(d, s[Len(s)])

Occurrences(s, x) == Cardinality({i \in 1..Len(s) : s[i] = x})

-----------------------------------------------------------------------------
(* Results of the codec functions: a value, or the type of the             *)
(* DeckCodeError that was thrown (and which throw statement it was)        *)

Ok(v) == [ok |-> TRUE, value |-> v, type |-> "none", reason |-> "none"]
Err(t, r) == [ok |-> FALSE, value |-> <<>>, type |-> t, reason |-> r]

-----------------------------------------------------------------------------
(* KCG format: the shared tables                                           *)

KCG_CHAR_MATRIX ==
    << <<"A", "I", "Q", "Y", "g", "o", "w", "5">>,
       <<"B", "J", "R", "Z", "h", "p", "x", "6">>,
       <<"C", "K", "S", "a", "i", "q", "y", "7">>,
       <<"D", "L", "T", "b", "j", "r", "z", "8">>,
       <<"E", "M", "U", "c", "k", "s", "1", "9">>,
       <<"F", "N", "V", "d", "l", "t", "2", "!">>,
       <<"G", "O", "W", "e", "m", "u", "3", "?">>,
       <<"H", "P", "X", "f", "n", "v", "4", "/">> >>

KCG_CHAR_MAP == Concat(KCG_CHAR_MATRIX)

\* KCG_CHAR_INDEX.get(ch): the 0-based index, -1 standing for undefined
KCG_CHAR_INDEX(ch) == IndexOf(KCG_CHAR_MAP, ch)
KCG_CHAR_SET_has(ch) == KCG_CHAR_INDEX(ch) # -1

MAP1_EXPANSION == <<"e", "A", "B", "C", "D", "E", "F", "G", "H", "I">>
MAP2_EXPANSION == <<"p", "J", "K", "L", "M", "N", "O", "P", "Q", "R">>

KcgPrefix == <<"K", "C", "G", "-">>

-----------------------------------------------------------------------------
(* encodeKcgDeckCode                                                       *)

\* mutant of cardCountsOf: the keys in order of last occurrence
cardCountsOf_lastSeen(ids) ==
    LET d == LastOccurrences(ids)
    IN  [k \in 1..Len(d) |-> <<d[k], Occurrences(ids, d[k])>>]

\* cardCounts: Object.entries order is insertion order (no card id is an
\* array-index key), each id with its number of occurrences
cardCountsOf(ids) ==
    LET d == FirstOccurrences(ids)
    IN  [k \in 1..Len(d) |-> <<d[k], Occurrences(ids, d[k])>>]

\* the keys of table O in the order of their values "0" .. "19"
O_keys ==
    << <<"e", "x">>, <<"A">>, <<"B">>, <<"C">>, <<"D">>, <<"E">>, <<"F">>,
       <<"G">>, <<"H">>, <<"I">>, <<"p", "r", "m">>, <<"J">>, <<"K">>, <<"L">>,
       <<"M">>, <<"N">>, <<"O">>, <<"P">>, <<"Q">>, <<"R">> >>

\* mutant of O_table: the table also maps letter S
O_table_withS(expansion) ==
    IF expansion = <<"S">> THEN 20 ELSE IndexOf(O_keys, expansion)

\* parseInt(O[expansion], 10), -1 standing for O[expansion] === undefined
O_table(expansion) == IndexOf(O_keys, expansion)

\* D[type]: "1".."4" for A, S, M, D; the empty string stands for undefined
D_table(type) ==
    IF type = <<"A">> THEN <<"1">>
    ELSE IF type = <<"S">> THEN <<"2">>
    ELSE IF type = <<"M">> THEN <<"3">>
    ELSE IF type = <<"D">> THEN <<"4">>
    ELSE <<>>

\* mutant of F_table: no zero padding of a one-digit number
F_table_noPad(numberPart) == numberPart

\* F[numberPart] || numberPart: "1".."9" become "01".."09"
F_table(numberPart) ==
    IF Len(numberPart) = 1 /\ IsDigit(numberPart[1]) /\ numberPart[1] # "0"
    THEN <<"0">> \o numberPart
    ELSE numberPart

\* mutant of EncodeTuple: the count check is missing
EncodeTuple_noCountCheck(id, count) ==
    LET splitIdx == IndexOf(id, "-")
        prefix == Substring(id, 0, splitIdx)
        numberPart == Substring(id, splitIdx + 1, Len(id))
        expansion == Substring(prefix, 0, Len(prefix) - 1)
        type == Substring(prefix, Len(prefix) - 1, Len(prefix))
        parsedVal == IndexOf(O_keys, expansion)
        isExpansionOver9 == parsedVal >= 10
        c1 == IF isExpansionOver9 THEN NatToString(parsedVal - 10)
              ELSE NatToString(parsedVal)
        c2 == D_table(type)
        c5 == IF isExpansionOver9 THEN count + 5 ELSE count
    IN  IF splitIdx = -1 THEN Err("generation", "format")
        ELSE IF parsedVal = -1 THEN Err("generation", "expansion")
        ELSE IF c2 = <<>> THEN Err("generation", "type")
        ELSE Ok(c1 \o c2 \o numberPart \o NatToString(c5))

\* mutant of EncodeTuple: c5 is the count for both tables
EncodeTuple_noTableOffset(id, count) ==
    LET splitIdx == IndexOf(id, "-")
        prefix == Substring(id, 0, splitIdx)
        numberPart == Substring(id, splitIdx + 1, Len(id))
        expansion == Substring(prefix, 0, Len(prefix) - 1)
        type == Substring(prefix, Len(prefix) - 1, Len(prefix))
        parsedVal == IndexOf(O_keys, expansion)
        isExpansionOver9 == parsedVal >= 10
        c1 == IF isExpansionOver9 THEN NatToString(parsedVal - 10)
              ELSE NatToString(parsedVal)
        c2 == D_table(type)
        c3c4 == IF Len(numberPart) = 1 THEN <<"0">> \o numberPart ELSE numberPart
    IN  IF splitIdx = -1 THEN Err("generation", "format")
        ELSE IF parsedVal = -1 THEN Err("generation", "expansion")
        ELSE IF c2 = <<>> THEN Err("generation", "type")
        ELSE IF count < 1 \/ count > 4 THEN Err("generation", "count")
        ELSE Ok(c1 \o c2 \o c3c4 \o NatToString(count))

\* the body of the loop over Object.entries(cardCounts) for one entry:
\* the digits appended to numericString, or the error thrown
EncodeTuple(id, count) ==
    LET splitIdx == IndexOf(id, "-")
        prefix == Substring(id, 0, splitIdx)
        numberPart == Substring(id, splitIdx + 1, Len(id))
        expansion == Substring(prefix, 0, Len(prefix) - 1)
        type == Substring(prefix, Len(prefix) - 1, Len(prefix))
        parsedVal == O_table(expansion)
        isExpansionOver9 == parsedVal >= 10
        c1 == IF isExpansionOver9 THEN NatToString(parsedVal - 10)
              ELSE NatToString(parsedVal)
        c2 == D_table(type)
        c3c4 == F_table(numberPart)
        c5 == IF isExpansionOver9 THEN count + 5 ELSE count
    IN  IF splitIdx = -1 THEN Err("generation", "format")
        ELSE IF parsedVal = -1 THEN Err("generation", "expansion")
        ELSE IF c2 = <<>> THEN Err("generation", "type")
        ELSE IF count < 1 \/ count > 4 THEN Err("generation", "count")
        ELSE Ok(c1 \o c2 \o c3c4 \o NatToString(c5))

\* the loop: numericString after all entries, or the first error thrown
RECURSIVE EncodeTuples(_)
EncodeTuples(entries) ==
    IF entries = <<>> THEN Ok(<<>>)
    ELSE LET t == EncodeTuple(Head(entries)[1], Head(entries)[2])
         IN  IF ~t.ok THEN t
             ELSE LET rest == EncodeTuples(Tail(entries))
                  IN  IF ~rest.ok THEN rest ELSE Ok(t.value \o rest.value)

numericStringOf(ids) == EncodeTuples(cardCountsOf(ids))

\* r: the 3-digit runs of numericString, parsed, then 500 - e
RunsOf(numericString) ==
    [k \in 1..((Len(numericString) + 2) \div 3) |->
        500 - ParseInt(Substring(numericString, 3 * (k - 1), 3 * k))]

\* binaryString before padding: 10 bits per run, 1024 + e for a negative e
TenBits(e) == ToBinary(IF e < 0 THEN 1024 + e ELSE e, 10)

binaryStringOf(numericString) ==
    LET r == RunsOf(numericString)
    IN  Concat([k \in 1..Len(r) |-> TenBits(r[k])])

\* the while loop that pads binaryString to a multiple of 6
paddingZerosOf(binaryString) == (6 - (Len(binaryString) % 6)) % 6

paddedBinaryString(binaryString) ==
    binaryString \o Repeat("0", paddingZerosOf(binaryString))

\* o = binaryString.match(/.{1,3}/g): groups of 3 (the last one shorter);
\* match returns null for the empty string, modelled by the empty sequence
GroupsOf3(padded) ==
    [k \in 1..((Len(padded) + 2) \div 3) |-> Substring(padded, 3 * (k - 1), 3 * k)]

\* u: one symbol per pair of groups
BodySymbols(o) ==
    LET i == [k \in 1..Len(o) |-> ParseBinary(o[k])]
        pairs == Len(i) \div 2
        sym(d) ==
            LET row == i[2 * d - 1]
                col == i[2 * d]
            IN  IF row >= 0 /\ row < Len(KCG_CHAR_MATRIX) /\ col >= 0 /\ col < 8
                THEN <<KCG_CHAR_MATRIX[row + 1][col + 1]>>
                ELSE <<>>
    IN  Concat([d \in 1..pairs |-> sym(d)])

\* mutant of HeaderRow: the padding is not recorded
HeaderRow_noPadding(paddingZeros) == 7

HeaderRow(paddingZeros) == 7 - paddingZeros
HeaderCol(o) == 7 - (Cardinality({k \in 1..Len(o) : o[k] = <<"0", "0", "0">>}) % 8)

\* the steps after the loop: binary packing, body and header
EncodeDigits(numericString) ==
    LET binaryString == binaryStringOf(numericString)
        paddingZeros == paddingZerosOf(binaryString)
        o == GroupsOf3(paddedBinaryString(binaryString))
        u == BodySymbols(o)
        s == HeaderRow(paddingZeros)
        c == HeaderCol(o)
    IN  IF o = <<>> THEN Err("generation", "split")
        ELSE IF s < 0 \/ s >= Len(KCG_CHAR_MATRIX) THEN Err("generation", "s")
        ELSE IF c < 0 \/ c >= 8 THEN Err("generation", "c")
        ELSE Ok(KcgPrefix \o <<KCG_CHAR_MATRIX[s + 1][c + 1]>> \o u)

encodeKcgDeckCode(ids) ==
    LET n == numericStringOf(ids)
    IN  IF ~n.ok THEN n ELSE EncodeDigits(n.value)

-----------------------------------------------------------------------------
(* decodeKcgDeckCode                                                       *)

\* comparisons of JavaScript numbers: every comparison with NaN is false
JsGe(a, b) == ~IsNaN(a) /\ ~IsNaN(b) /\ a >= b
JsLe(a, b) == ~IsNaN(a) /\ ~IsNaN(b) /\ a <= b
JsLt(a, b) == ~IsNaN(a) /\ ~IsNaN(b) /\ a < b
JsGt(a, b) == ~IsNaN(a) /\ ~IsNaN(b) /\ a > b

\* mutant of InputCheck: a payload without body symbols counts as empty
InputCheck_bodyRequired(deckCode) ==
    LET rawPayloadWithVersion == Substring(deckCode, 4, Len(deckCode))
    IN  IF deckCode = <<>> \/ ~StartsWith(deckCode, KcgPrefix) THEN "prefix"
        ELSE IF Len(rawPayloadWithVersion) <= 1 THEN "empty"
        ELSE IF \E i \in 1..Len(rawPayloadWithVersion) :
                    ~KCG_CHAR_SET_has(rawPayloadWithVersion[i]) THEN "char"
        ELSE "none"

\* step 1: the three checks, "none" when the input passes them
InputCheck(deckCode) ==
    LET rawPayloadWithVersion == Substring(deckCode, 4, Len(deckCode))
    IN  IF deckCode = <<>> \/ ~StartsWith(deckCode, KcgPrefix) THEN "prefix"
        ELSE IF Len(rawPayloadWithVersion) = 0 THEN "empty"
        ELSE IF \E i \in 1..Len(rawPayloadWithVersion) :
                    ~KCG_CHAR_SET_has(rawPayloadWithVersion[i]) THEN "char"
        ELSE "none"

\* step 2: the number of bits to remove, from the header symbol
\* mutant of charsToRemoveFromPayloadEnd: the quotient is not incremented
charsToRemoveFromPayloadEnd_noIncrement(headChar) ==
    LET headIndex1Based == KCG_CHAR_INDEX(headChar) + 1
        deckCodeFifthCharQuotient == headIndex1Based \div 8
        remainderFifthChar == headIndex1Based % 8
    IN  IF remainderFifthChar = 0 THEN 0
        ELSE 8 - deckCodeFifthCharQuotient

charsToRemoveFromPayloadEnd(headChar) ==
    LET headIndex1Based == KCG_CHAR_INDEX(headChar) + 1
        deckCodeFifthCharQuotient == headIndex1Based \div 8
        remainderFifthChar == headIndex1Based % 8
    IN  IF remainderFifthChar = 0 THEN 0
        ELSE 8 - (deckCodeFifthCharQuotient + 1)

\* step 3: 6 bits per body symbol
initialBinaryPayload(payload) ==
    Concat([i \in 1..Len(payload) |-> ToBinary(KCG_CHAR_INDEX(payload[i]), 6)])

\* step 4: the padding removed from the end
processedBinaryPayload(initial, toRemove) ==
    IF toRemove > 0 /\ Len(initial) >= toRemove
    THEN Substring(initial, 0, Len(initial) - toRemove)
    ELSE IF toRemove > 0 THEN <<>>
    ELSE initial

\* mutant of ChunkNVal: the chunk is read as unsigned whatever its leading bit
ChunkNVal_unsigned(tenBitChunk) == 500 - ParseBinary(tenBitChunk)

\* step 5: one 10-bit chunk to nVal, and nVal rendered
ChunkNVal(tenBitChunk) ==
    LET signedDecimalVal ==
            IF tenBitChunk[1] = "1" THEN ParseBinary(tenBitChunk) - 1024
            ELSE ParseBinary(tenBitChunk)
    IN  500 - signedDecimalVal

formattedNVal(nVal) ==
    IF nVal >= 0 /\ nVal < 10 THEN <<"X", "X">> \o NumToString(nVal)
    ELSE IF nVal >= 10 /\ nVal < 100 THEN <<"X">> \o NumToString(nVal)
    ELSE NumToString(nVal)

intermediateString(processed) ==
    Concat([k \in 1..(Len(processed) \div 10) |->
        formattedNVal(ChunkNVal(Substring(processed, 10 * (k - 1), 10 * k)))])

\* mutant of RemoveLastXs: the scan starts at the beginning
RECURSIVE RemoveLastXs_fromStart(_, _)
RemoveLastXs_fromStart(s, k) ==
    IF k = 0 \/ s = <<>> THEN s
    ELSE IF Head(s) = "X" THEN RemoveLastXs_fromStart(Tail(s), k - 1)
    ELSE <<Head(s)>> \o RemoveLastXs_fromStart(Tail(s), k)

\* step 6, first loop: scanning from the end, splice out up to k "X"
RECURSIVE RemoveLastXs(_, _)
RemoveLastXs(s, k) ==
    IF k = 0 \/ s = <<>> THEN s
    ELSE LET init == SubSeq(s, 1, Len(s) - 1)
         IN  IF s[Len(s)] = "X" THEN RemoveLastXs(init, k - 1)
             ELSE Append(RemoveLastXs(init, k), s[Len(s)])

\* mutant of adjustedString: nothing is removed
adjustedString_noCut(intermediate) == intermediate

\* mutant of adjustedString: only placeholders are removed, never a digit
adjustedString_onlyX(intermediate) ==
    RemoveLastXs(intermediate, Len(intermediate) % 5)

\* step 6: the string cut to a multiple of 5
adjustedString(intermediate) ==
    LET remainderForFive == Len(intermediate) % 5
        afterX == RemoveLastXs(intermediate, remainderForFive)
        removedXCount == Len(intermediate) - Len(afterX)
        remainingCharsToRemove == remainderForFive - removedXCount
    IN  IF remainderForFive = 0 THEN intermediate
        ELSE IF remainingCharsToRemove > 0
        THEN Substring(afterX, 0, Len(afterX) - remainingCharsToRemove)
        ELSE afterX

\* adjustedString.replace(/X/g, "0")
finalNumericString(adjusted) ==
    [i \in 1..Len(adjusted) |-> IF adjusted[i] = "X" THEN "0" ELSE adjusted[i]]

\* parseInt(ch, 10) of one character
ParseDigit(ch) == IF IsDigit(ch) THEN DigitVal(ch) ELSE NaN

\* step 7 for one 5-character chunk: <<cardIdPart, c5>>, or <<>> when the
\* chunk is skipped (continue)
DecodeChunk(fiveDigitChunk) ==
    LET c1 == ParseDigit(fiveDigitChunk[1])
        c2 == ParseDigit(fiveDigitChunk[2])
        c3 == ParseDigit(fiveDigitChunk[3])
        c4 == ParseDigit(fiveDigitChunk[4])
        c5 == ParseDigit(fiveDigitChunk[5])
        low == JsGe(c5, 1) /\ JsLe(c5, 4)
        high == JsGe(c5, 6) /\ JsLe(c5, 9)
        expansionMap == IF low THEN MAP1_EXPANSION ELSE MAP2_EXPANSION
        \* charAt(NaN) is charAt(0)
        selectedCharFromMap == expansionMap[(IF IsNaN(c1) THEN 0 ELSE c1) + 1]
        expansion ==
            IF selectedCharFromMap = "e" THEN <<"e", "x">>
            ELSE IF selectedCharFromMap = "p" THEN <<"p", "r", "m">>
            ELSE <<selectedCharFromMap>>
        type == IF c2 = 1 THEN "A" ELSE IF c2 = 2 THEN "S"
                ELSE IF c2 = 3 THEN "M" ELSE "D"
        numberPartInt == IF IsNaN(c3) \/ IsNaN(c4) THEN NaN ELSE c3 * 10 + c4
    IN  IF ~low /\ ~high THEN <<>>
        ELSE IF JsGe(c1, Len(expansionMap)) THEN <<>>
        ELSE IF c2 \notin 1..4 THEN <<>>
        ELSE IF JsLt(numberPartInt, 1) \/ JsGt(numberPartInt, 50) THEN <<>>
        ELSE <<expansion \o <<type, "-">> \o NumToString(numberPartInt), c5>>

decodedEntries(final) ==
    LET all == [k \in 1..(Len(final) \div 5) |->
                    DecodeChunk(Substring(final, 5 * (k - 1), 5 * k))]
    IN  SelectSeq(all, LAMBDA e : e # <<>>)

\* mutant of deckListOutput: c5 itself as the repeat count
deckListOutput_noModulo(entries) ==
    Concat([k \in 1..Len(entries) |-> Repeat(entries[k][1], entries[k][2])])

\* step 8: repeatCount copies of each entry
deckListOutput(entries) ==
    Concat([k \in 1..Len(entries) |-> Repeat(entries[k][1], entries[k][2] % 5)])

\* steps 2..6 on a payload that passed step 1
FinalNumericOfPayload(rawPayloadWithVersion) ==
    LET toRemove == charsToRemoveFromPayloadEnd(rawPayloadWithVersion[1])
        payload == Substring(rawPayloadWithVersion, 1, Len(rawPayloadWithVersion))
        processed == processedBinaryPayload(initialBinaryPayload(payload), toRemove)
    IN  finalNumericString(adjustedString(intermediateString(processed)))

\* the try block after step 1; a body symbol without an index makes
\* charIndex.toString throw a TypeError
DecodePayload(rawPayloadWithVersion) ==
    LET payload == Substring(rawPayloadWithVersion, 1, Len(rawPayloadWithVersion))
        final == FinalNumericOfPayload(rawPayloadWithVersion)
    IN  IF \E i \in 1..Len(payload) : KCG_CHAR_INDEX(payload[i]) = -1
        THEN Err("thrown", "TypeError")
        ELSE IF Len(final) % 5 # 0 THEN Err("validation", "length")
        ELSE Ok(deckListOutput(decodedEntries(final)))

\* the whole function: a DeckCodeError is rethrown, anything else is
\* wrapped in a DeckCodeError of type decode
decodeKcgDeckCode(deckCode) ==
    LET check == InputCheck(deckCode)
        r == DecodePayload(Substring(deckCode, 4, Len(deckCode)))
    IN  IF check # "none" THEN Err("validation", check)
        ELSE IF ~r.ok /\ r.type = "thrown" THEN Err("decode", "unexpected")
        ELSE r

-----------------------------------------------------------------------------
(* Card identifier grammar and the slash-code schema                       *)

\* GAME_CONSTANTS.MAX_DECK_CODE_LENGTH: the constants module is not among
\* the sources read, so the value is a parameter of the model
MAX_DECK_CODE_LENGTH == 24

\* GAME_CONSTANTS.MAX_CARD_COPIES: a parameter of the model, as above
MAX_CARD_COPIES == 4

\* /\d+$/ on the rest of the identifier after the "-" at 1-based position p
DigitsToEnd(s, p) == Len(s) > p /\ \A i \in (p + 1)..Len(s) : IsDigit(s[i])

\* (A|S|M|D)-\d+$ starting at 1-based position p
TypeDashNumberAt(s, p) ==
    /\ Len(s) >= p + 1
    /\ s[p] \in {"A", "S", "M", "D"}
    /\ s[p + 1] = "-"
    /\ DigitsToEnd(s, p + 1)

\* CARD_ID_REGEX.test(s): ^([A-Z]|ex|prm)(A|S|M|D)-\d+$
CARD_ID_REGEX_test(s) ==
    \/ Len(s) >= 1 /\ s[1] \in UpperLetters /\ TypeDashNumberAt(s, 2)
    \/ StartsWith(s, <<"e", "x">>) /\ TypeDashNumberAt(s, 3)
    \/ StartsWith(s, <<"p", "r", "m">>) /\ TypeDashNumberAt(s, 4)

\* v.safeParse(CardIdSchema, s): trim, nonEmpty, the regex check
CardIdSchema(s) ==
    LET trimmed == Trim(s)
    IN  IF trimmed = <<>> THEN Err("issue", "empty")
        ELSE IF ~CARD_ID_REGEX_test(trimmed) THEN Err("issue", "format")
        ELSE Ok(trimmed)

\* mutant of SlashDeckCodeSchema: the check of every token is missing
SlashDeckCodeSchema_noTokenCheck(code) ==
    LET s == Trim(code)
    IN  IF s = <<>> THEN Err("issue", "empty")
        ELSE IF Len(s) > MAX_DECK_CODE_LENGTH THEN Err("issue", "maxLength")
        ELSE IF StartsWith(s, <<"/">>) \/ EndsWith(s, <<"/">>) THEN Err("issue", "edge")
        ELSE IF Includes(s, <<"/", "/">>) THEN Err("issue", "double")
        ELSE Ok(s)

\* mutant of SlashDeckCodeSchema: the maxLength check is missing
SlashDeckCodeSchema_noMaxLength(code) ==
    LET s == Trim(code)
        tokens == SplitSlash(s)
    IN  IF s = <<>> THEN Err("issue", "empty")
        ELSE IF StartsWith(s, <<"/">>) \/ EndsWith(s, <<"/">>) THEN Err("issue", "edge")
        ELSE IF Includes(s, <<"/", "/">>) THEN Err("issue", "double")
        ELSE IF ~(\A k \in 1..Len(tokens) : CARD_ID_REGEX_test(Trim(tokens[k])))
        THEN Err("issue", "token")
        ELSE Ok(s)

\* v.safeParse(SlashDeckCodeSchema, code): trim, then the checks in order;
\* the reason is the first check that fails
SlashDeckCodeSchema(code) ==
    LET s == Trim(code)
        tokens == SplitSlash(s)
    IN  IF s = <<>> THEN Err("issue", "empty")
        ELSE IF Len(s) > MAX_DECK_CODE_LENGTH THEN Err("issue", "maxLength")
        ELSE IF StartsWith(s, <<"/">>) \/ EndsWith(s, <<"/">>) THEN Err("issue", "edge")
        ELSE IF Includes(s, <<"/", "/">>) THEN Err("issue", "double")
        ELSE IF ~(\A k \in 1..Len(tokens) : CARD_ID_REGEX_test(Trim(tokens[k])))
        THEN Err("issue", "token")
        ELSE Ok(s)

-----------------------------------------------------------------------------
(* Deck aggregation: decodeDeckCode and toDeckCardsFromCardIds             *)

\* new Map(availableCards.map(c => [c.id, c])).get(id): the last card
\* with this id; HasCard tells whether there is one
HasCard(availableCards, id) == \E i \in 1..Len(availableCards) : availableCards[i].id = id
GetCard(availableCards, id) ==
    availableCards[CHOOSE i \in 1..Len(availableCards) :
        /\ availableCards[i].id = id
        /\ \A j \in (i + 1)..Len(availableCards) : availableCards[j].id # id]

decodeDeckCode(code, availableCards) ==
    LET parsed == SlashDeckCodeSchema(code)
        ids == SelectSeq(SplitSlash(parsed.value), LAMBDA id : Trim(id) # <<>>)
        valid == SelectSeq(ids, LAMBDA id : CardIdSchema(id).ok)
        normalized == [k \in 1..Len(valid) |-> CardIdSchema(valid[k]).value]
        \* cardCounts: a Map, iterated in insertion order
        keys == FirstOccurrences(normalized)
        found == SelectSeq(keys, LAMBDA id : HasCard(availableCards, id))
        missing == SelectSeq(keys, LAMBDA id : ~HasCard(availableCards, id))
    IN  IF ~parsed.ok THEN Err("validation", parsed.reason)
        ELSE Ok([deckCards |->
                    [k \in 1..Len(found) |->
                        [card |-> GetCard(availableCards, found[k]),
                         count |-> Occurrences(normalized, found[k])]],
                 missingCardIds |-> missing])

\* mutant of toDeckCardsFromCardIds: of several catalog cards with one id
\* the first is kept, not the last
toDeckCardsFromCardIds_firstCard(ids, availableCards) ==
    LET trimmed == [k \in 1..Len(ids) |-> Trim(ids[k])]
        nonBlank == SelectSeq(trimmed, LAMBDA s : s # <<>>)
        valid == SelectSeq(nonBlank, LAMBDA s : CardIdSchema(s).ok)
        parsedIds == [k \in 1..Len(valid) |-> CardIdSchema(valid[k]).value]
        counted == FirstOccurrences(parsedIds)
        present == SelectSeq(counted, LAMBDA id : HasCard(availableCards, id))
        absent == SelectSeq(counted, LAMBDA id : ~HasCard(availableCards, id))
        first(id) == availableCards[CHOOSE i \in 1..Len(availableCards) :
                        /\ availableCards[i].id = id
                        /\ \A j \in 1..(i - 1) : availableCards[j].id # id]
    IN  [deckCards |->
            [k \in 1..Len(present) |->
                [card |-> first(present[k]),
                 count |-> Occurrences(parsedIds, present[k])]],
         missingCardIds |-> absent]

\* the adapter of the KCG decode path (and of the claims about it)
toDeckCardsFromCardIds(ids, availableCards) ==
    LET trimmed == [k \in 1..Len(ids) |-> Trim(ids[k])]
        nonBlank == SelectSeq(trimmed, LAMBDA s : s # <<>>)
        valid == SelectSeq(nonBlank, LAMBDA s : CardIdSchema(s).ok)
        parsedIds == [k \in 1..Len(valid) |-> CardIdSchema(valid[k]).value]
        \* counts: a Map, iterated in insertion order
        counted == FirstOccurrences(parsedIds)
        present == SelectSeq(counted, LAMBDA id : HasCard(availableCards, id))
        absent == SelectSeq(counted, LAMBDA id : ~HasCard(availableCards, id))
    IN  [deckCards |->
            [k \in 1..Len(present) |->
                [card |-> GetCard(availableCards, present[k]),
                 count |-> Occurrences(parsedIds, present[k])]],
         missingCardIds |-> absent]

-----------------------------------------------------------------------------
(* Deck operations (domain/deck.ts)                                        *)

\* createDeckCardMap followed by mapToDeckCards: one entry per id, at the
\* place of the id's first entry, holding its last entry
DeckIds(cards) == [k \in 1..Len(cards) |-> cards[k].card.id]
MapHas(cards, id) == \E k \in 1..Len(cards) : cards[k].card.id = id
MapGet(cards, id) ==
    cards[CHOOSE k \in 1..Len(cards) :
        cards[k].card.id = id /\ \A j \in (k + 1)..Len(cards) : cards[j].card.id # id]
mapToDeckCards(cards) ==
    LET keys == FirstOccurrences(DeckIds(cards))
    IN  [k \in 1..Len(keys) |-> MapGet(cards, keys[k])]

\* deckMap.set(id, deckCard) and deckMap.delete(id), then mapToDeckCards
MapSet(cards, id, deckCard) ==
    LET m == mapToDeckCards(cards)
    IN  IF MapHas(m, id)
        THEN [k \in 1..Len(m) |-> IF m[k].card.id = id THEN deckCard ELSE m[k]]
        ELSE Append(m, deckCard)
MapDelete(cards, id) ==
    SelectSeq(mapToDeckCards(cards), LAMBDA dc : dc.card.id # id)

createDeckCard(card, count) ==
    IF count < 1 THEN Err("InvalidCardCount", "createDeckCard")
    ELSE IF count > MAX_CARD_COPIES THEN Err("MaxCountExceeded", "createDeckCard")
    ELSE Ok([card |-> card, count |-> count])

calculateTotalCards(cards) ==
    LET RECURSIVE Sum(_)
        Sum(k) == IF k = 0 THEN 0 ELSE cards[k].count + Sum(k - 1)
    IN  Sum(Len(cards))

calculateDeckState(cards) ==
    IF Len(cards) = 0 THEN "empty"
    ELSE IF \E k \in 1..Len(cards) :
                cards[k].count < 1 \/ cards[k].count > MAX_CARD_COPIES
    THEN "invalid"
    ELSE "valid"

\* mutant of addCardToDeck: the check against MAX_CARD_COPIES is missing
addCardToDeck_noLimit(cards, cardToAdd) ==
    LET newDeckCard == createDeckCard(cardToAdd, 1)
    IN  IF MapHas(cards, cardToAdd.id)
        THEN LET existingCard == MapGet(cards, cardToAdd.id)
             IN  Ok(MapSet(cards, cardToAdd.id,
                           [existingCard EXCEPT !.count = existingCard.count + 1]))
        ELSE IF ~newDeckCard.ok THEN newDeckCard
        ELSE Ok(MapSet(cards, cardToAdd.id, newDeckCard.value))

addCardToDeck(cards, cardToAdd) ==
    LET newDeckCard == createDeckCard(cardToAdd, 1)
    IN  IF MapHas(cards, cardToAdd.id)
        THEN LET existingCard == MapGet(cards, cardToAdd.id)
             IN  IF existingCard.count >= MAX_CARD_COPIES
                 THEN Err("MaxCountExceeded", "addCardToDeck")
                 ELSE Ok(MapSet(cards, cardToAdd.id,
                                [existingCard EXCEPT !.count = existingCard.count + 1]))
        ELSE IF ~newDeckCard.ok THEN newDeckCard
        ELSE Ok(MapSet(cards, cardToAdd.id, newDeckCard.value))

\* mutant of setCardCount: the check against MAX_CARD_COPIES is missing
setCardCount_noMax(cards, cardId, count) ==
    IF ~MapHas(cards, cardId) THEN Err("CardNotFound", "setCardCount")
    ELSE LET existingCard == MapGet(cards, cardId)
         IN  IF count < 0 THEN Err("InvalidCardCount", "setCardCount")
             ELSE IF count = 0 THEN Ok(MapDelete(cards, cardId))
             ELSE IF count = existingCard.count THEN Ok(cards)
             ELSE Ok(MapSet(cards, cardId, [existingCard EXCEPT !.count = count]))

setCardCount(cards, cardId, count) ==
    IF ~MapHas(cards, cardId) THEN Err("CardNotFound", "setCardCount")
    ELSE LET existingCard == MapGet(cards, cardId)
         IN  IF count < 0 THEN Err("InvalidCardCount", "setCardCount")
             ELSE IF count = 0 THEN Ok(MapDelete(cards, cardId))
             ELSE IF count = existingCard.count THEN Ok(cards)
             ELSE IF count > MAX_CARD_COPIES THEN Err("MaxCountExceeded", "setCardCount")
             ELSE Ok(MapSet(cards, cardId, [existingCard EXCEPT !.count = count]))

removeCardFromDeck(cards, cardId) ==
    IF ~MapHas(cards, cardId) THEN Err("CardNotFound", "removeCardFromDeck")
    ELSE Ok(MapDelete(cards, cardId))

\* cards.find(dc => dc.card.id === cardId): the first entry with the id
FindCard(cards, cardId) ==
    cards[CHOOSE k \in 1..Len(cards) :
        cards[k].card.id = cardId /\ \A j \in 1..(k - 1) : cards[j].card.id # cardId]

incrementCardCount(cards, cardId) ==
    IF ~MapHas(cards, cardId) THEN Err("CardNotFound", "incrementCardCount")
    ELSE setCardCount(cards, cardId, FindCard(cards, cardId).count + 1)

decrementCardCount(cards, cardId) ==
    IF ~MapHas(cards, cardId) THEN Err("CardNotFound", "decrementCardCount")
    ELSE setCardCount(cards, cardId, FindCard(cards, cardId).count - 1)

\* operation: [type, card, cardId, count]
executeDeckOperation(cards, operation) ==
    IF operation.type = "addCard" THEN addCardToDeck(cards, operation.card)
    ELSE IF operation.type = "removeCard" THEN removeCardFromDeck(cards, operation.cardId)
    ELSE IF operation.type = "incrementCount" THEN incrementCardCount(cards, operation.cardId)
    ELSE IF operation.type = "decrementCount" THEN decrementCardCount(cards, operation.cardId)
    ELSE IF operation.type = "setCount"
    THEN setCardCount(cards, operation.cardId, operation.count)
    ELSE Ok(<<>>)

-----------------------------------------------------------------------------
(* Inputs of the KCG scenarios                                             *)

\* a card identifier from its expansion, type letter and number part
CardId(expansion, type, numberPart) == expansion \o <<type, "-">> \o numberPart

NoResult == Err("none", "none")

\* an encoder input holds one entry drawn from the whole pool, placed
\* among at most MaxContext entries drawn from the context pool
MaxContext == 2

\* identifiers with a mapped expansion, a type and a number in 1..50
\* written without leading zeros
PlainIds ==
    { CardId(<<"e", "x">>, "A", <<"1">>),
      CardId(<<"p", "r", "m">>, "D", <<"5", "0">>),
      CardId(<<"A">>, "S", <<"9">>),
      CardId(<<"I">>, "M", <<"1", "0">>),
      CardId(<<"J">>, "A", <<"2", "5">>),
      CardId(<<"R">>, "D", <<"3">>) }

\* identifiers at the edges of what the encoder accepts: an unmapped
\* expansion, an unknown type, numbers with a leading zero, 0, above 50,
\* of three digits, and no "-"
EdgeIds ==
    { CardId(<<"S">>, "A", <<"1">>),
      CardId(<<"A">>, "X", <<"2">>),
      CardId(<<"A">>, "A", <<"0", "1">>),
      CardId(<<"A">>, "A", <<"0">>),
      CardId(<<"A">>, "A", <<"5", "1">>),
      CardId(<<"A">>, "A", <<"1", "0", "0">>),
      <<"A", "A", "1">> }

IdPool == PlainIds \cup EdgeIds
CountPool == {1, 2, 3, 4, 5}

ContextEntries ==
    { <<CardId(<<"e", "x">>, "A", <<"1">>), 1>>,
      <<CardId(<<"R">>, "D", <<"3">>), 4>>,
      <<CardId(<<"I">>, "M", <<"1", "0">>), 2>>,
      <<CardId(<<"p", "r", "m">>, "D", <<"5", "0">>), 3>>,
      <<CardId(<<"J">>, "A", <<"2", "5">>), 5>> }

DistinctIds(l) == \A i, j \in 1..Len(l) : i # j => l[i][1] # l[j][1]

\* sequences of at most n context entries
RECURSIVE ContextLists(_)
ContextLists(n) ==
    IF n = 0 THEN {<<>>}
    ELSE LET shorter == ContextLists(n - 1)
         IN  shorter \cup
             { Append(l, e) : l \in {x \in shorter : Len(x) = n - 1}, e \in ContextEntries }

\* e placed after the first p elements of l (at the end when l is shorter)
InsertAt(l, p, e) ==
    LET q == IF p > Len(l) THEN Len(l) ELSE p
    IN  SubSeq(l, 1, q) \o <<e>> \o SubSeq(l, q + 1, Len(l))

EntryLists ==
    { l \in { InsertAt(ctx, p, <<id, c>>) :
                ctx \in ContextLists(MaxContext), p \in 0..MaxContext,
                id \in IdPool, c \in CountPool } : DistinctIds(l) }
    \cup {<<>>}

\* the list generateDeckCodes builds: each id repeated count times
expand(l) == Concat([k \in 1..Len(l) |-> Repeat(l[k][1], l[k][2])])

\* lists in which the copies of an identifier are not consecutive
ShuffledInputs ==
    LET pairs == {p \in PlainIds \X PlainIds : p[1] # p[2]}
        triples == {q \in PlainIds \X PlainIds \X PlainIds :
                        q[1] # q[2] /\ q[1] # q[3] /\ q[2] # q[3]}
    IN  {<<p[1], p[2], p[1]>> : p \in pairs}
        \cup {<<p[1], p[2], p[2], p[1], p[1]>> : p \in pairs}
        \cup {<<q[1], q[2], q[3], q[2], q[1]>> : q \in triples}

KcgInputs == { expand(l) : l \in EntryLists } \cup ShuffledInputs

-----------------------------------------------------------------------------
(* Scenario: a list of identifiers is encoded, and the code decoded        *)

KcgInit ==
    /\ AsyncIdle
    /\ PackIdle
    /\ StoreIdle
    /\ pc = "kcg"
    /\ cardIds \in KcgInputs
    /\ kcgCode = NoResult
    /\ rawCode = <<>>
    /\ kcgDecoded = NoResult
    /\ slashCode = <<>>
    /\ catalog = <<>>
    /\ slashResult = NoResult
    /\ adapterResult = NoResult
    /\ deckCards = <<>>
    /\ lastOp = NoResult

KcgEncode ==
    /\ pc = "kcg"
    /\ kcgCode' = encodeKcgDeckCode(cardIds)
    /\ pc' = "encoded"
    /\ UNCHANGED <<cardIds, rawCode, kcgDecoded, slashCode, catalog,
                   slashResult, adapterResult, deckCards, lastOp>>
    /\ UNCHANGED <<asyncVars, packVars, storeVars>>

KcgDecode ==
    /\ pc = "encoded"
    /\ kcgCode.ok
    /\ rawCode' = kcgCode.value
    /\ kcgDecoded' = decodeKcgDeckCode(kcgCode.value)
    /\ pc' = "decoded"
    /\ UNCHANGED <<cardIds, kcgCode, slashCode, catalog,
                   slashResult, adapterResult, deckCards, lastOp>>
    /\ UNCHANGED <<asyncVars, packVars, storeVars>>

KcgNext == KcgEncode \/ KcgDecode

SpecKcg == KcgInit /\ [][KcgNext]_vars

-----------------------------------------------------------------------------
(* Scenario: decodeKcgDeckCode on an arbitrary input string                *)

\* the largest number of body symbols of a raw input
MaxBody == 4

\* header symbols: index 29 (4 bits to remove), 31 (index + 1 a multiple
\* of 8: nothing to remove), 0 (7 bits to remove)
HeaderPool == {"r", "8", "A"}

\* body symbols: indices 24, 25, 58, 61, 32, 0
BodyPool == {"D", "L", "X", "v", "E", "A"}

RECURSIVE SeqsUpTo(_, _)
SeqsUpTo(S, n) ==
    IF n = 0 THEN {<<>>}
    ELSE LET shorter == SeqsUpTo(S, n - 1)
         IN  shorter \cup {Append(s, x) : s \in {y \in shorter : Len(y) = n - 1}, x \in S}

\* payloads with one character outside the alphabet, at any place
BadCharPayloads ==
    { InsertAt(b, p, "#") : b \in SeqsUpTo(HeaderPool \cup BodyPool, 2), p \in 0..2 }

BadPrefixes == { <<>>, <<"K", "C", "G">>, <<"k", "c", "g", "-">>, <<" ", "K", "C", "G", "-">> }

RawInputs ==
    { KcgPrefix \o <<h>> \o b : h \in HeaderPool, b \in SeqsUpTo(BodyPool, MaxBody) }
    \cup { KcgPrefix \o b : b \in BadCharPayloads }
    \cup { KcgPrefix }
    \cup { p \o b : p \in BadPrefixes, b \in SeqsUpTo(HeaderPool \cup BodyPool, 2) }

RawInit ==
    /\ AsyncIdle
    /\ PackIdle
    /\ StoreIdle
    /\ pc = "raw"
    /\ rawCode \in RawInputs
    /\ cardIds = <<>>
    /\ kcgCode = NoResult
    /\ kcgDecoded = NoResult
    /\ slashCode = <<>>
    /\ catalog = <<>>
    /\ slashResult = NoResult
    /\ adapterResult = NoResult
    /\ deckCards = <<>>
    /\ lastOp = NoResult

RawDecode ==
    /\ pc = "raw"
    /\ kcgDecoded' = decodeKcgDeckCode(rawCode)
    /\ pc' = "rawDecoded"
    /\ UNCHANGED <<cardIds, kcgCode, rawCode, slashCode, catalog,
                   slashResult, adapterResult, deckCards, lastOp>>
    /\ UNCHANGED <<asyncVars, packVars, storeVars>>

RawNext == RawDecode

SpecRaw == RawInit /\ [][RawNext]_vars

-----------------------------------------------------------------------------
(* What the claims about the KCG codec speak of                            *)

Range(s) == {s[i] : i \in 1..Len(s)}

\* a list of identifiers re-aggregated into identifier -> count
CountsOf(ids) == {<<id, Occurrences(ids, id)>> : id \in Range(ids)}

\* the parts of an identifier that holds a "-": what precedes the type
\* letter, the type letter, what follows the "-"
ExpansionOf(id) == Substring(id, 0, IndexOf(id, "-") - 1)
TypeOf(id) == Substring(id, IndexOf(id, "-") - 1, IndexOf(id, "-"))
NumberOf(id) == Substring(id, IndexOf(id, "-") + 1, Len(id))

MappedExpansions ==
    {<<"e", "x">>, <<"p", "r", "m">>} \cup
    {<<l>> : l \in {"A", "B", "C", "D", "E", "F", "G", "H", "I",
                    "J", "K", "L", "M", "N", "O", "P", "Q", "R"}}
TypeLetters == {<<"A">>, <<"S">>, <<"M">>, <<"D">>}

\* a number part that is 1..50 in decimal without leading zeros
CanonicalNumber(n) ==
    /\ n # <<>>
    /\ \A i \in 1..Len(n) : IsDigit(n[i])
    /\ n[1] # "0"
    /\ ParseInt(n) \in 1..50

Encoded == pc \in {"encoded", "decoded"}

\* the precondition of C1 as stated: grammar-valid identifiers with a
\* number in 1..50, counts in 1..4
C1_Pre ==
    /\ \A id \in Range(cardIds) :
        /\ CARD_ID_REGEX_test(id)
        /\ ParseInt(NumberOf(id)) \in 1..50
        /\ Occurrences(cardIds, id) \in 1..4

\* the precondition of C1 as amended
C1_AmendedPre ==
    /\ cardIds # <<>>
    /\ \A id \in Range(cardIds) :
        /\ CARD_ID_REGEX_test(id)
        /\ ExpansionOf(id) \in MappedExpansions
        /\ CanonicalNumber(NumberOf(id))
        /\ Occurrences(cardIds, id) \in 1..4

\* the encode succeeded and, once decoded, the counts are the input's
RoundTripHolds ==
    /\ Encoded => kcgCode.ok
    /\ pc = "decoded" => kcgDecoded.ok /\ CountsOf(kcgDecoded.value) = CountsOf(cardIds)

\* C1 as stated: every list of grammar-valid identifiers with numbers in
\* 1..50 and counts in 1..4 survives encodeKcgDeckCode then
\* decodeKcgDeckCode with its counts
C1_CompactRoundTrip_AsStated == C1_Pre => RoundTripHolds

\* C1 as amended: every non-empty list of grammar-valid identifiers whose
\* expansion is one of ex, prm, A..R and whose number is 1..50 written
\* without leading zeros, with counts in 1..4, survives encodeKcgDeckCode
\* then decodeKcgDeckCode with its counts
C1_CompactRoundTrip == C1_AmendedPre => RoundTripHolds

\* a decoded round trip of three distinct identifiers, one from each
\* expansion table, one with four copies
C1_Witness ==
    /\ pc = "decoded"
    /\ C1_AmendedPre
    /\ Cardinality(Range(cardIds)) = 3
    /\ \E id \in Range(cardIds) : Occurrences(cardIds, id) = 4
    /\ \E id \in Range(cardIds) : ExpansionOf(id) = <<"R">>
    /\ \E id \in Range(cardIds) : ExpansionOf(id) = <<"e", "x">>

\* C5: a list in which some identifier occurs 5 times or more makes
\* encodeKcgDeckCode fail with a DeckCodeError of type generation, and no
\* code is produced
C5_CountBound ==
    (Encoded /\ \E id \in Range(cardIds) : Occurrences(cardIds, id) >= 5)
        => ~kcgCode.ok /\ kcgCode.type = "generation" /\ kcgCode.value = <<>>

\* five copies of an otherwise encodable identifier among other entries:
\* the count check is the throw that fires
C5_Witness ==
    /\ pc = "encoded"
    /\ Cardinality(Range(cardIds)) = 3
    /\ \E id \in Range(cardIds) : Occurrences(cardIds, id) >= 5
    /\ ~kcgCode.ok
    /\ kcgCode.reason = "count"

\* a string "KCG-" + one header symbol + body symbols of the alphabet
WellFormedKcgCode(code) ==
    /\ StartsWith(code, KcgPrefix)
    /\ Len(code) >= 5
    /\ \A i \in 5..Len(code) : code[i] \in Range(KCG_CHAR_MAP)

UnmappedId(id) ==
    /\ IndexOf(id, "-") # -1
    /\ ExpansionOf(id) \notin MappedExpansions \/ TypeOf(id) \notin TypeLetters

\* C6: encodeKcgDeckCode either fails with type generation or returns
\* "KCG-", a header symbol and body symbols of the alphabet; it fails
\* with generation whenever an identifier has an expansion outside ex,
\* prm, A..R or a type letter outside A, S, M, D
C6_EncodeOutcome ==
    Encoded =>
        /\ kcgCode.ok => WellFormedKcgCode(kcgCode.value)
        /\ ~kcgCode.ok => kcgCode.type = "generation"
        /\ (\E id \in Range(cardIds) : UnmappedId(id)) => ~kcgCode.ok

\* a grammar-valid identifier of expansion S, after two encodable
\* entries, stops the encoder at the expansion lookup
C6_Witness ==
    /\ pc = "encoded"
    /\ Len(cardIds) >= 3
    /\ cardIds[Len(cardIds)] = CardId(<<"S">>, "A", <<"1">>)
    /\ CARD_ID_REGEX_test(cardIds[Len(cardIds)])
    /\ ~kcgCode.ok
    /\ kcgCode.reason = "expansion"

\* the three conditions of C3 on the input string
NoKcgPrefix(code) == ~StartsWith(code, KcgPrefix)
EmptyPayload(code) == StartsWith(code, KcgPrefix) /\ Len(code) = 4
ForeignChar(code) ==
    StartsWith(code, KcgPrefix) /\ \E i \in 5..Len(code) : code[i] \notin Range(KCG_CHAR_MAP)

\* a list of identifiers, each a string
IsIdList(v) == \A i \in 1..Len(v) : Len(v[i]) > 0

\* C3: decodeKcgDeckCode fails, with a DeckCodeError of type validation,
\* exactly when the input lacks the prefix "KCG-", has an empty payload or
\* has a payload character outside the alphabet; on every other input it
\* returns a list of identifiers
C3_DecodeFailsExactlyOnBadInput ==
    pc = "rawDecoded" =>
        IF NoKcgPrefix(rawCode) \/ EmptyPayload(rawCode) \/ ForeignChar(rawCode)
        THEN ~kcgDecoded.ok /\ kcgDecoded.type = "validation"
        ELSE kcgDecoded.ok /\ IsIdList(kcgDecoded.value)

\* a payload over the alphabet whose rendering has no placeholder to
\* drop, so that step 6 cuts a real digit: it still returns a list
C3_Witness ==
    /\ pc = "rawDecoded"
    /\ StartsWith(rawCode, KcgPrefix)
    /\ Len(rawCode) = 5 + MaxBody
    /\ LET processed == processedBinaryPayload(
                            initialBinaryPayload(Substring(rawCode, 5, Len(rawCode))),
                            charsToRemoveFromPayloadEnd(rawCode[5]))
           inter == intermediateString(processed)
       IN  Len(inter) % 5 # 0 /\ "X" \notin Range(inter)
    /\ kcgDecoded.ok

-----------------------------------------------------------------------------
(* Scenario: a list of tokens is joined into a slash code, the code is     *)
(* decoded against a catalog, and the same tokens go through the adapter   *)

\* the largest number of context tokens of a slash code
MaxTokens == 4

Card(id, name) == [id |-> id, name |-> name]

\* tokens that fill a slash code: one in the catalog, one absent from it
SlashContextTokens ==
    { CardId(<<"A">>, "A", <<"1">>), CardId(<<"Z">>, "D", <<"7">>) }

\* the token placed among them: in the catalog, absent from it, outside
\* the grammar, empty, blank, or with blanks around it
SlashFocusTokens ==
    { CardId(<<"B">>, "S", <<"2">>),
      CardId(<<"p", "r", "m">>, "D", <<"1", "0">>),
      CardId(<<"e", "x">>, "M", <<"3">>),
      <<"Z", "Z", "Z", "-", "9">>,
      <<"a", "a", "-", "1">>,
      <<"A", "A", "-">>,
      <<"A", "-", "1">>,
      <<"A", "A", "-", "1", "x">>,
      <<>>,
      <<" ">>,
      <<" ", "B", "S", "-", "2", " ">> }

SlashTokenLists ==
    SeqsUpTo(SlashContextTokens, MaxTokens)
    \cup { InsertAt(ctx, p, tok) :
             ctx \in SeqsUpTo(SlashContextTokens, MaxTokens),
             p \in 0..MaxTokens, tok \in SlashFocusTokens }

\* whitespace around a code
PadPool == { <<>>, <<" ">>, <<"\n">> }

CatalogFull ==
    << Card(CardId(<<"A">>, "A", <<"1">>), "a"),
       Card(CardId(<<"B">>, "S", <<"2">>), "b"),
       Card(CardId(<<"p", "r", "m">>, "D", <<"1", "0">>), "c") >>

\* a catalog that holds two cards with one id
CatalogDup ==
    << Card(CardId(<<"A">>, "A", <<"1">>), "a"),
       Card(CardId(<<"B">>, "S", <<"2">>), "b"),
       Card(CardId(<<"A">>, "A", <<"1">>), "a2") >>

SlashCatalogs == { CatalogFull, CatalogDup, <<>> }

SlashInit ==
    /\ AsyncIdle
    /\ PackIdle
    /\ StoreIdle
    /\ pc = "ids"
    /\ cardIds \in SlashTokenLists
    /\ catalog \in SlashCatalogs
    /\ kcgCode = NoResult
    /\ rawCode = <<>>
    /\ kcgDecoded = NoResult
    /\ slashCode = <<>>
    /\ slashResult = NoResult
    /\ adapterResult = NoResult
    /\ deckCards = <<>>
    /\ lastOp = NoResult

\* generateDeckCodes: the slash code is the identifiers joined by "/"
\* (the empty string for the empty list)
SlashJoin ==
    /\ pc = "ids"
    /\ slashCode' = (IF Len(cardIds) = 0 THEN <<>> ELSE JoinSlash(cardIds))
    /\ pc' = "slash"
    /\ UNCHANGED <<cardIds, kcgCode, rawCode, kcgDecoded, catalog,
                   slashResult, adapterResult, deckCards, lastOp>>
    /\ UNCHANGED <<asyncVars, packVars, storeVars>>

\* a code given to decodeDeckCode with whitespace before or after it
SlashPad ==
    /\ pc = "ids"
    /\ \E l, r \in PadPool :
        /\ l # <<>> \/ r # <<>>
        /\ slashCode' = l \o JoinSlash(cardIds) \o r
    /\ pc' = "slash"
    /\ UNCHANGED <<cardIds, kcgCode, rawCode, kcgDecoded, catalog,
                   slashResult, adapterResult, deckCards, lastOp>>
    /\ UNCHANGED <<asyncVars, packVars, storeVars>>

SlashDecode ==
    /\ pc = "slash"
    /\ slashResult' = decodeDeckCode(slashCode, catalog)
    /\ pc' = "slashDecoded"
    /\ UNCHANGED <<cardIds, kcgCode, rawCode, kcgDecoded, slashCode, catalog,
                   adapterResult, deckCards, lastOp>>
    /\ UNCHANGED <<asyncVars, packVars, storeVars>>

\* the adapter on code.trim().split("/")
SlashAdapt ==
    /\ pc = "slashDecoded"
    /\ adapterResult' = Ok(toDeckCardsFromCardIds(SplitSlash(Trim(slashCode)), catalog))
    /\ pc' = "adapted"
    /\ UNCHANGED <<cardIds, kcgCode, rawCode, kcgDecoded, slashCode, catalog,
                   slashResult, deckCards, lastOp>>
    /\ UNCHANGED <<asyncVars, packVars, storeVars>>

SlashNext == SlashJoin \/ SlashPad \/ SlashDecode \/ SlashAdapt

SpecSlash == SlashInit /\ [][SlashNext]_vars

-----------------------------------------------------------------------------
(* Scenario: deck operations applied through the store, from the empty     *)
(* deck                                                                    *)

\* the number of cards the operations choose from
NumCards == 2

DeckCardPool == { Card(CardId(<<"A">>, "A", NatToString(i)), "n") : i \in 1..NumCards }
DeckIdPool == { c.id : c \in DeckCardPool }

\* the counts given to setCount: below, inside and above 1..MAX_CARD_COPIES
SetCountPool == (0 - 1)..(MAX_CARD_COPIES + 1)

NoCard == Card(<<>>, "none")

DeckInit ==
    /\ AsyncIdle
    /\ PackIdle
    /\ StoreIdle
    /\ pc = "deck"
    /\ deckCards = <<>>
    /\ lastOp = NoResult
    /\ cardIds = <<>>
    /\ kcgCode = NoResult
    /\ rawCode = <<>>
    /\ kcgDecoded = NoResult
    /\ slashCode = <<>>
    /\ catalog = <<>>
    /\ slashResult = NoResult
    /\ adapterResult = NoResult

\* applyOperation: the result of executeDeckOperation replaces the deck;
\* when it throws, the deck stays
applyOperation(operation) ==
    LET result == executeDeckOperation(deckCards, operation)
    IN  /\ pc = "deck"
        /\ deckCards' = (IF result.ok THEN result.value ELSE deckCards)
        /\ lastOp' = [result EXCEPT !.value = operation.type]
        /\ UNCHANGED <<pc, cardIds, kcgCode, rawCode, kcgDecoded, slashCode,
                       catalog, slashResult, adapterResult>>
        /\ UNCHANGED <<asyncVars, packVars, storeVars>>

Operation(type, card, cardId, count) ==
    [type |-> type, card |-> card, cardId |-> cardId, count |-> count]

AddCard == \E c \in DeckCardPool : applyOperation(Operation("addCard", c, c.id, 0))
RemoveCard == \E id \in DeckIdPool : applyOperation(Operation("removeCard", NoCard, id, 0))
IncrementCount ==
    \E id \in DeckIdPool : applyOperation(Operation("incrementCount", NoCard, id, 0))
DecrementCount ==
    \E id \in DeckIdPool : applyOperation(Operation("decrementCount", NoCard, id, 0))
SetCount ==
    \E id \in DeckIdPool, n \in SetCountPool :
        applyOperation(Operation("setCount", NoCard, id, n))
Clear == applyOperation(Operation("clear", NoCard, <<>>, 0))

DeckNext ==
    AddCard \/ RemoveCard \/ IncrementCount \/ DecrementCount \/ SetCount \/ Clear

SpecDeck == DeckInit /\ [][DeckNext]_vars

-----------------------------------------------------------------------------
(* What the claims about the slash codec speak of                          *)

\* the tokens of a code, as the claims read them: the parts between the
\* "/" of the trimmed code, each without the blanks around it
TokensOf(code) ==
    LET parts == SplitSlash(Trim(code))
    IN  [k \in 1..Len(parts) |-> Trim(parts[k])]

InGrammar(tok) == CARD_ID_REGEX_test(tok)
InCatalog(id) == \E i \in 1..Len(catalog) : catalog[i].id = id

\* the 1-based place of the first occurrence of x in s
FirstIndex(s, x) == CHOOSE i \in 1..Len(s) : s[i] = x /\ \A j \in 1..(i - 1) : s[j] # x

SlashDecoded == pc \in {"slashDecoded", "adapted"}

NoEdgeOrDoubleSlash(code) ==
    /\ ~StartsWith(code, <<"/">>)
    /\ ~EndsWith(code, <<"/">>)
    /\ ~Includes(code, <<"/", "/">>)

\* the case of C2: a code within the length limit, without leading,
\* trailing or doubled "/", of at least two tokens, exactly one of them
\* outside the grammar
C2_Pre ==
    /\ SlashDecoded
    /\ Len(Trim(slashCode)) <= MAX_DECK_CODE_LENGTH
    /\ NoEdgeOrDoubleSlash(Trim(slashCode))
    /\ Len(TokensOf(slashCode)) >= 2
    /\ Cardinality({k \in 1..Len(TokensOf(slashCode)) : ~InGrammar(TokensOf(slashCode)[k])}) = 1

C4_PreList ==
    /\ SlashDecoded
    /\ slashCode = JoinSlash(cardIds)
    /\ Len(slashCode) <= MAX_DECK_CODE_LENGTH
    /\ \A id \in Range(cardIds) :
        /\ InGrammar(id)
        /\ Occurrences(cardIds, id) \in 1..4
        /\ InCatalog(id)

\* the decode returned one entry per distinct identifier of the list, with
\* the identifier's count, and no missing identifier
RoundTripDelimited ==
    /\ slashResult.ok
    /\ slashResult.value.missingCardIds = <<>>
    /\ Len(slashResult.value.deckCards) = Cardinality(Range(cardIds))
    /\ \A id \in Range(cardIds) :
        \E i \in 1..Len(slashResult.value.deckCards) :
            /\ slashResult.value.deckCards[i].card.id = id
            /\ slashResult.value.deckCards[i].count = Occurrences(cardIds, id)

\* C4 as stated: any such list, the empty one included
C4_DelimitedRoundTrip_AsStated == C4_PreList => RoundTripDelimited

\* C4 as amended: for any non-empty list of grammar-valid identifiers with
\* counts in 1..4, all in the catalog, whose "/"-joined string is within
\* the maximum code length, decodeDeckCode(ids.join("/"), catalog) has
\* exactly one deckCards entry per distinct identifier, with its count,
\* and no missing identifier
C4_DelimitedRoundTrip == (C4_PreList /\ cardIds # <<>>) => RoundTripDelimited

\* four copies of one identifier around one copy of another, the joined
\* code as long as the limit allows
C4_Witness ==
    /\ C4_PreList
    /\ Len(cardIds) = 5
    /\ Cardinality(Range(cardIds)) = 2
    /\ \E id \in Range(cardIds) : Occurrences(cardIds, id) = 4
    /\ cardIds[1] = cardIds[5]
    /\ slashResult.ok

Rejected ==
    /\ ~slashResult.ok
    /\ slashResult.type = "validation"
    /\ slashResult.value = <<>>

\* C7 as stated: the length limit read on the code as given
C7_Rejects_AsStated ==
    (SlashDecoded /\
        \/ Trim(slashCode) = <<>>
        \/ Len(slashCode) > MAX_DECK_CODE_LENGTH
        \/ StartsWith(slashCode, <<"/">>)
        \/ EndsWith(slashCode, <<"/">>)
        \/ Includes(slashCode, <<"/", "/">>))
    => Rejected

\* C7 as amended: decodeDeckCode rejects with a DeckCodeError of type
\* validation, returning no entries, every code that is empty after
\* trimming, that is longer than MAX_DECK_CODE_LENGTH after trimming, that
\* starts or ends with "/", or that contains "//"
C7_Rejects ==
    (SlashDecoded /\
        \/ Trim(slashCode) = <<>>
        \/ Len(Trim(slashCode)) > MAX_DECK_CODE_LENGTH
        \/ StartsWith(slashCode, <<"/">>)
        \/ EndsWith(slashCode, <<"/">>)
        \/ Includes(slashCode, <<"/", "/">>))
    => Rejected

\* a code of tokens of the grammar only, too long even when trimmed: the
\* length check is the one that rejects it
C7_Witness ==
    /\ SlashDecoded
    /\ Len(Trim(slashCode)) > MAX_DECK_CODE_LENGTH
    /\ NoEdgeOrDoubleSlash(Trim(slashCode))
    /\ \A k \in 1..Len(TokensOf(slashCode)) : InGrammar(TokensOf(slashCode)[k])
    /\ ~slashResult.ok
    /\ slashResult.reason = "maxLength"

DeckCardIdsOf(r) == [i \in 1..Len(r.deckCards) |-> r.deckCards[i].card.id]

\* s holds no element twice, and its elements stand in the order of
\* their first occurrence in toks
InFirstSeenOrder(s, toks) ==
    \A i, j \in 1..Len(s) :
        i < j => s[i] # s[j] /\ FirstIndex(toks, s[i]) < FirstIndex(toks, s[j])

\* C8: for every slash code decodeDeckCode accepts, each distinct token in
\* the catalog is in deckCards exactly once, in order of first appearance,
\* with its number of occurrences as count; each distinct token absent
\* from the catalog is in missingCardIds exactly once, in first-seen
\* order; when every token is absent, deckCards is empty and
\* missingCardIds is not
C8_Partition ==
    (SlashDecoded /\ slashResult.ok) =>
        LET toks == TokensOf(slashCode)
            r == slashResult.value
            ids == DeckCardIdsOf(r)
        IN  /\ Range(ids) = {x \in Range(toks) : InCatalog(x)}
            /\ Range(r.missingCardIds) = {x \in Range(toks) : ~InCatalog(x)}
            /\ InFirstSeenOrder(ids, toks)
            /\ InFirstSeenOrder(r.missingCardIds, toks)
            /\ \A i \in 1..Len(ids) :
                /\ r.deckCards[i].count = Occurrences(toks, ids[i])
                /\ r.deckCards[i].card \in Range(catalog)
            /\ (\A x \in Range(toks) : ~InCatalog(x)) =>
                    r.deckCards = <<>> /\ r.missingCardIds # <<>>

\* an accepted code of two tokens in the catalog and two absent from it,
\* one of them twice, the first token not the first of the catalog
C8_Witness ==
    /\ SlashDecoded
    /\ slashResult.ok
    /\ Len(slashResult.value.deckCards) = 2
    /\ Len(slashResult.value.missingCardIds) >= 1
    /\ \E i \in 1..Len(slashResult.value.deckCards) : slashResult.value.deckCards[i].count >= 2
    /\ slashResult.value.deckCards[1].card.id # catalog[1].id
    /\ Len(TokensOf(slashCode)) = 5

\* C9: for every slash code accepted by decodeDeckCode and every catalog,
\* decodeDeckCode(code, catalog) returns the deckCards and missingCardIds
\* (entries, counts, order) of
\* toDeckCardsFromCardIds(code.trim().split("/"), catalog)
C9_AdapterEquivalence ==
    (pc = "adapted" /\ slashResult.ok) => adapterResult.value = slashResult.value

\* both paths ran on an accepted code with a token written with blanks
\* around it, against the catalog that holds an id twice
C9_Witness ==
    /\ pc = "adapted"
    /\ slashResult.ok
    /\ catalog = CatalogDup
    /\ \E k \in 1..Len(SplitSlash(Trim(slashCode))) :
        SplitSlash(Trim(slashCode))[k] # TokensOf(slashCode)[k]
    /\ Len(adapterResult.value.deckCards) = 2
    /\ Len(adapterResult.value.missingCardIds) = 1

-----------------------------------------------------------------------------
(* What the claim about the deck operations speaks of                      *)

\* C10: every deck reachable from the empty deck by operations applied
\* through executeDeckOperation (a throwing operation leaving the deck as
\* it was) has pairwise distinct card ids and every count in
\* 1..MAX_CARD_COPIES, so that calculateDeckState is never "invalid"
C10_DeckInvariant ==
    pc = "deck" =>
        /\ \A i, j \in 1..Len(deckCards) :
            i # j => deckCards[i].card.id # deckCards[j].card.id
        /\ \A i \in 1..Len(deckCards) : deckCards[i].count \in 1..MAX_CARD_COPIES
        /\ calculateDeckState(deckCards) # "invalid"

\* a full deck: every card of the pool at MAX_CARD_COPIES, after a
\* setCount above the maximum was refused
C10_Witness ==
    /\ pc = "deck"
    /\ Len(deckCards) = NumCards
    /\ \A i \in 1..Len(deckCards) : deckCards[i].count = MAX_CARD_COPIES
    /\ ~lastOp.ok
    /\ lastOp.type = "MaxCountExceeded"
    /\ lastOp.value = "setCount"

\* every operation the deck scenario applies
AllOperations ==
    { Operation("addCard", c, c.id, 0) : c \in DeckCardPool }
    \cup { Operation(ty, NoCard, id, 0) :
             ty \in {"removeCard", "incrementCount", "decrementCount"}, id \in DeckIdPool }
    \cup { Operation("setCount", NoCard, id, n) : id \in DeckIdPool, n \in SetCountPool }
    \cup { Operation("clear", NoCard, <<>>, 0) }

InDeck(id) == \E i \in 1..Len(deckCards) : deckCards[i].card.id = id
AtMax(id) == \E i \in 1..Len(deckCards) :
    deckCards[i].card.id = id /\ deckCards[i].count = MAX_CARD_COPIES

\* the error C11 names for an operation on the current deck, "none" when
\* it names none
C11_Expected(op) ==
    IF op.type \in {"removeCard", "incrementCount", "decrementCount", "setCount"}
       /\ ~InDeck(op.cardId)
    THEN "CardNotFound"
    ELSE IF op.type \in {"addCard", "incrementCount"} /\ AtMax(op.cardId)
    THEN "MaxCountExceeded"
    ELSE IF op.type = "setCount" /\ op.count < 0 THEN "InvalidCardCount"
    ELSE IF op.type = "setCount" /\ op.count > MAX_CARD_COPIES THEN "MaxCountExceeded"
    ELSE "none"

\* C11: an operation applied through applyOperation fails, leaving
\* deckCards unchanged, exactly in the cases listed (addCard or
\* incrementCount at MAX_CARD_COPIES: MaxCountExceeded; removeCard,
\* incrementCount, decrementCount or setCount on an id not in the deck:
\* CardNotFound, before any count check; setCount below 0:
\* InvalidCardCount; setCount above MAX_CARD_COPIES: MaxCountExceeded), and
\* succeeds in every other case
C11_OperationErrors ==
    [][\A op \in AllOperations :
        applyOperation(op) =>
            IF C11_Expected(op) = "none"
            THEN lastOp'.ok
            ELSE /\ ~lastOp'.ok
                 /\ lastOp'.type = C11_Expected(op)
                 /\ deckCards' = deckCards]_vars

\* a setCount was refused with CardNotFound on a deck that holds another
\* card at MAX_CARD_COPIES
C11_Witness ==
    /\ pc = "deck"
    /\ Len(deckCards) = 1
    /\ deckCards[1].count = MAX_CARD_COPIES
    /\ ~lastOp.ok
    /\ lastOp.type = "CardNotFound"
    /\ lastOp.value = "setCount"

-----------------------------------------------------------------------------
(* Scenario: saveDeckAsJpeg calls of the export store. A call runs from    *)
(* one await to the next without interruption; other calls start or resume *)
(* in between.                                                             *)

\* the number of saveDeckAsJpeg calls
NumExports == 3

\* the codec and deck scenarios are not running
CodecIdle(p) ==
    /\ pc = p
    /\ cardIds = <<>>
    /\ kcgCode = NoResult
    /\ rawCode = <<>>
    /\ kcgDecoded = NoResult
    /\ slashCode = <<>>
    /\ catalog = <<>>
    /\ slashResult = NoResult
    /\ adapterResult = NoResult
    /\ deckCards = <<>>
    /\ lastOp = NoResult

\* the awaits of saveDeckAsJpeg, in order: the background image, the font,
\* the placeholder image, the card images, the blob
ExportAwaits == <<"background", "font", "placeholder", "images", "blob">>

ExportInit ==
    /\ CodecIdle("export")
    /\ PackIdle
    /\ StoreIdle
    /\ isSaving = FALSE
    /\ exportCalls = [c \in 1..NumExports |-> "idle"]
    /\ isLoading = FALSE
    /\ error = "none"
    /\ availableCount = 0
    /\ initCalls = <<>>
    /\ initLog = <<>>

ExportUnchanged ==
    UNCHANGED <<codecVars, isLoading, error, availableCount, initCalls, initLog,
                packVars, storeVars>>

\* mutant of SaveStart: the isSaving guard is missing
SaveStart_noGuard(c) ==
    /\ exportCalls[c] = "idle"
    /\ isSaving' = TRUE
    /\ exportCalls' = [exportCalls EXCEPT ![c] = "background"]
    /\ ExportUnchanged

\* the call up to its first await: the guard, isSaving.value = true, the
\* canvas context (a missing context throws, and finally resets isSaving)
SaveStart(c) ==
    /\ exportCalls[c] = "idle"
    /\ IF isSaving
       THEN /\ exportCalls' = [exportCalls EXCEPT ![c] = "concurrency"]
            /\ UNCHANGED isSaving
       ELSE \/ /\ exportCalls' = [exportCalls EXCEPT ![c] = "canvas"]
               /\ isSaving' = FALSE
            \/ /\ exportCalls' = [exportCalls EXCEPT ![c] = "background"]
               /\ isSaving' = TRUE
    /\ ExportUnchanged

\* an await is fulfilled: the call runs to the next await, or to the end
\* (finally resets isSaving)
SaveResume(c) ==
    /\ \E k \in 1..Len(ExportAwaits) :
        /\ exportCalls[c] = ExportAwaits[k]
        /\ IF k < Len(ExportAwaits)
           THEN /\ exportCalls' = [exportCalls EXCEPT ![c] = ExportAwaits[k + 1]]
                /\ UNCHANGED isSaving
           ELSE /\ exportCalls' = [exportCalls EXCEPT ![c] = "saved"]
                /\ isSaving' = FALSE
    /\ ExportUnchanged

\* an await is rejected or the code after it throws: the catch wraps the
\* error as unknown, finally resets isSaving (a failed font load is
\* swallowed by ensureShipporiMinchoLoaded and is no failure)
SaveFail(c) ==
    /\ exportCalls[c] \in {"background", "placeholder", "images", "blob"}
    /\ exportCalls' = [exportCalls EXCEPT ![c] = "unknown"]
    /\ isSaving' = FALSE
    /\ ExportUnchanged

ExportNext ==
    \E c \in 1..NumExports : SaveStart(c) \/ SaveResume(c) \/ SaveFail(c)

SpecExport == ExportInit /\ [][ExportNext]_vars

InProgress(c) == \E k \in 1..Len(ExportAwaits) : exportCalls[c] = ExportAwaits[k]

\* C12: at most one saveDeckAsJpeg call is in progress at a time, and
\* isSaving is true exactly while one is (so it is false again once the
\* running export has completed or failed); a call made while isSaving is
\* true is rejected with the ExportError of type concurrency and leaves
\* isSaving as it was
C12_ExportMutex ==
    /\ [](pc = "export" =>
            /\ Cardinality({c \in 1..NumExports : InProgress(c)}) <= 1
            /\ isSaving <=> \E c \in 1..NumExports : InProgress(c))
    /\ [][\A c \in 1..NumExports :
            (pc = "export" /\ exportCalls[c] = "idle" /\ exportCalls'[c] # "idle" /\ isSaving)
                => exportCalls'[c] = "concurrency" /\ isSaving' = isSaving]_vars

\* one call was rejected while another was at its last await, a third had
\* failed before; the running one has since been saved
C12_Witness ==
    /\ pc = "export"
    /\ \E c \in 1..NumExports : exportCalls[c] = "concurrency"
    /\ \E c \in 1..NumExports : exportCalls[c] = "saved"
    /\ \E c \in 1..NumExports : exportCalls[c] = "unknown"
    /\ ~isSaving

-----------------------------------------------------------------------------
(* Scenario: initializeApp calls of the app store, with loadCards of the   *)
(* cards store. A call runs from one await to the next without             *)
(* interruption; other calls start or resume in between.                   *)

\* the number of initializeApp calls
NumInits == 3

\* the largest number of valid cards a loaded CSV holds
MaxCsvCards == 2

\* how loadCardsFromCsv and the validation after it can end: a number of
\* valid cards (none makes ensureValidCards throw), or an error thrown by
\* the fetch or the parse
LoadOutcomes ==
    { [cards |-> n, thrown |-> "none"] : n \in 0..MaxCsvCards }
    \cup { [cards |-> 0, thrown |-> e] : e \in {"fetch", "parse"} }

\* mapErrorToCardStoreError on the outcome of a load
mapErrorToCardStoreError(outcome) ==
    IF outcome.thrown # "none" THEN outcome.thrown ELSE "validation"

AppInit ==
    /\ CodecIdle("app")
    /\ PackIdle
    /\ StoreIdle
    /\ isSaving = FALSE
    /\ exportCalls = <<>>
    /\ isLoading = FALSE
    /\ error = "none"
    /\ availableCount = 0
    /\ initCalls = [c \in 1..NumInits |-> "idle"]
    /\ initLog = <<>>

AppUnchanged == UNCHANGED <<codecVars, isSaving, exportCalls, packVars, storeVars>>

\* initializeApp up to its await, with loadCards up to its own await: the
\* re-entrancy guard returns at once; otherwise isLoading is set, error
\* cleared, and the CSV requested
InitStart(c) ==
    /\ initCalls[c] = "idle"
    /\ IF isLoading
       THEN /\ initCalls' = [initCalls EXCEPT ![c] = "guarded"]
            /\ UNCHANGED <<isLoading, error>>
       ELSE /\ initCalls' = [initCalls EXCEPT ![c] = "loading"]
            /\ isLoading' = TRUE
            /\ error' = "none"
    /\ UNCHANGED <<availableCount, initLog>>
    /\ AppUnchanged

\* the CSV request of the loading call settles: loadCards runs to its end
\* (success path or catch, then finally)
LoadSettles(c) ==
    /\ initCalls[c] = "loading"
    /\ \E outcome \in LoadOutcomes :
        IF outcome.thrown = "none" /\ outcome.cards > 0
        THEN /\ availableCount' = outcome.cards
             /\ UNCHANGED error
        ELSE /\ error' = mapErrorToCardStoreError(outcome)
             /\ UNCHANGED availableCount
    /\ isLoading' = FALSE
    /\ initCalls' = [initCalls EXCEPT ![c] = "settled"]
    /\ UNCHANGED initLog
    /\ AppUnchanged

\* initializeApp after its await: return on cardsStore.error, otherwise
\* initializeDeck(cardsStore.availableCards) and generateDeckCodes
InitContinue(c) ==
    /\ initCalls[c] \in {"guarded", "settled"}
    /\ IF error # "none"
       THEN /\ initCalls' = [initCalls EXCEPT ![c] = "stopped"]
            /\ UNCHANGED initLog
       ELSE /\ initCalls' = [initCalls EXCEPT ![c] = "initialized"]
            /\ initLog' = Append(initLog,
                    [call |-> c, cards |-> availableCount, loading |-> isLoading,
                     error |-> error, returnedAt |-> initCalls[c]])
    /\ UNCHANGED <<isLoading, error, availableCount>>
    /\ AppUnchanged

AppNext == \E c \in 1..NumInits : InitStart(c) \/ LoadSettles(c) \/ InitContinue(c)

SpecApp == AppInit /\ [][AppNext]_vars

\* C13: a call whose loadCards ended with cardsStore.error set runs
\* neither initializeDeck nor generateDeckCodes; and in every execution,
\* overlapping initializeApp calls included, initializeDeck is only called
\* once the card catalog has been loaded successfully (availableCards not
\* empty, no load running or failed)
C13_InitOnlyAfterLoad ==
    pc = "app" =>
        \A i \in 1..Len(initLog) :
            /\ initLog[i].error = "none"
            /\ initLog[i].cards > 0
            /\ ~initLog[i].loading

\* the second of two overlapping calls has run initializeDeck on the
\* empty catalog while the first call's load is still running
C13_Overlap ==
    /\ pc = "app"
    /\ Len(initLog) = 1
    /\ initLog[1].returnedAt = "guarded"
    /\ initLog[1].cards = 0
    /\ isLoading
    /\ \E c \in 1..NumInits : initCalls[c] = "loading"

-----------------------------------------------------------------------------
(* What the claims about the steps of the KCG codec speak of               *)

\* the encoder's intermediate values for the input of the scenario
EncNumericString == numericStringOf(cardIds).value
EncBinaryString == binaryStringOf(EncNumericString)
EncPaddingZeros == paddingZerosOf(EncBinaryString)

\* the decoder's intermediate values for the code the encoder returned
DecHeadChar == kcgCode.value[5]
DecToRemove == charsToRemoveFromPayloadEnd(DecHeadChar)
DecProcessed ==
    processedBinaryPayload(
        initialBinaryPayload(Substring(kcgCode.value, 5, Len(kcgCode.value))),
        DecToRemove)

\* the column of the header symbol in KCG_CHAR_MATRIX
HeadColumn == KCG_CHAR_INDEX(DecHeadChar) % 8

EncIds == FirstOccurrences(cardIds)

AllInGrammar == \A id \in Range(cardIds) : CARD_ID_REGEX_test(id)

\* the k-th tuple of five digits of the encoder's digit string
EncTuple(k) == SubSeq(EncNumericString, 5 * k - 4, 5 * k)

\* a number part of two digits, or of one digit other than 0
TwoDigitNumber(n) ==
    \/ Len(n) = 2
    \/ Len(n) = 1 /\ n # <<"0">>

\* a number part as two digits
ZeroPadded(n) == IF Len(n) = 1 THEN <<"0">> \o n ELSE n

\* C15: for every grammar-valid identifier the encoder accepts (mapped
\* expansion and type, count 1..4) the encoder appends exactly five
\* decimal digits, so the digit string is 5 times as long as there are
\* distinct identifiers.  The encoder never checks the number part, so
\* "AA-100" gives six digits and "AA-0" four.
C15_TupleWidth_AsStated ==
    (Encoded /\ kcgCode.ok /\ AllInGrammar) =>
        Len(EncNumericString) = 5 * Len(EncIds)

\* an accepted list whose digit string is not a whole number of tuples
C15_WrongWidth ==
    /\ Encoded
    /\ kcgCode.ok
    /\ AllInGrammar
    /\ \E id \in Range(cardIds) : Len(NumberOf(id)) = 3
    /\ Len(EncNumericString) = 5 * Len(EncIds) + 1

\* the width the format needs is kept where every number part is two
\* digits, or one digit other than 0: five decimal digits per distinct
\* identifier, c3c4 being the number part zero-padded to two digits
TupleWidthOfTwoDigitNumbers ==
    (Encoded /\ kcgCode.ok /\ AllInGrammar
        /\ \A id \in Range(cardIds) : TwoDigitNumber(NumberOf(id))) =>
        /\ Len(EncNumericString) = 5 * Len(EncIds)
        /\ \A i \in 1..Len(EncNumericString) : IsDigit(EncNumericString[i])
        /\ \A k \in 1..Len(EncIds) :
            SubSeq(EncTuple(k), 3, 4) = ZeroPadded(NumberOf(EncIds[k]))

\* an identifier of the card-identifier grammar as the compact format
\* carries it: mapped expansion, type, number 1..50 without leading zeros
DecodableId(id) ==
    /\ IndexOf(id, "-") >= 2
    /\ ExpansionOf(id) \in MappedExpansions
    /\ TypeOf(id) \in TypeLetters
    /\ CanonicalNumber(NumberOf(id))

RawDecodedOk ==
    /\ pc = "rawDecoded"
    /\ StartsWith(rawCode, KcgPrefix)
    /\ kcgDecoded.ok

\* C16: for every non-empty payload over the 64-symbol alphabet, every
\* identifier decodeKcgDeckCode returns satisfies the card-identifier
\* grammar: expansion in {ex, prm, A..R}, type in {A,S,M,D}, and a decimal
\* number in 1..50 without leading zeros.  A chunk whose value is
\* 501..511 gives a negative nVal, its "-" reaches c3 or c4, and
\* the number part is emitted as "NaN".
C16_DecodedIdsInGrammar ==
    RawDecodedOk =>
        \A i \in 1..Len(kcgDecoded.value) :
            /\ CARD_ID_REGEX_test(kcgDecoded.value[i])
            /\ DecodableId(kcgDecoded.value[i])

\* a payload over the alphabet decoded to an identifier numbered "NaN"
C16_NaNIdentifier ==
    /\ RawDecodedOk
    /\ \E i \in 1..Len(kcgDecoded.value) :
        /\ NumberOf(kcgDecoded.value[i]) = <<"N", "a", "N">>
        /\ ~CARD_ID_REGEX_test(kcgDecoded.value[i])

-----------------------------------------------------------------------------
(* Scenario: the decoder on the encoder's codes and on arbitrary payloads   *)

CodecInit == KcgInit \/ RawInit

CodecNext == KcgNext \/ RawNext

SpecCodec == CodecInit /\ [][CodecNext]_vars

\* the two expansion tables as the format describes them
TABLE_LOW ==
    << <<"e", "x">>, <<"A">>, <<"B">>, <<"C">>, <<"D">>,
       <<"E">>, <<"F">>, <<"G">>, <<"H">>, <<"I">> >>
TABLE_HIGH ==
    << <<"p", "r", "m">>, <<"J">>, <<"K">>, <<"L">>, <<"M">>,
       <<"N">>, <<"O">>, <<"P">>, <<"Q">>, <<"R">> >>
TYPE_LETTERS == <<"A", "S", "M", "D">>

\* a decode of a code with the prefix and a non-empty payload over the alphabet
DecodedPayload ==
    /\ pc \in {"decoded", "rawDecoded"}
    /\ StartsWith(rawCode, KcgPrefix)
    /\ Len(rawCode) > 4
    /\ \A i \in 5..Len(rawCode) : rawCode[i] \in Range(KCG_CHAR_MAP)

\* the string the decoder cuts into tuples, and its k-th tuple
DecFinal == FinalNumericOfPayload(Substring(rawCode, 4, Len(rawCode)))
DecTuple(k) == SubSeq(DecFinal, 5 * k - 4, 5 * k)
DecTupleCount == Len(DecFinal) \div 5

TupleNumber(t) == 10 * DigitVal(t[3]) + DigitVal(t[4])

\* a tuple the format drops
TupleDropped(t) ==
    \/ DigitVal(t[5]) \in {0, 5}
    \/ DigitVal(t[2]) \notin 1..4
    \/ TupleNumber(t) \notin 1..50

TupleRepeat(t) == IF DigitVal(t[5]) <= 4 THEN DigitVal(t[5]) ELSE DigitVal(t[5]) - 5

TupleIdentifier(t) ==
    (IF DigitVal(t[5]) <= 4 THEN TABLE_LOW ELSE TABLE_HIGH)[DigitVal(t[1]) + 1]
        \o <<TYPE_LETTERS[DigitVal(t[2])], "-">> \o NatToString(TupleNumber(t))

AllDigits(s) == \A i \in 1..Len(s) : IsDigit(s[i])

\* what one tuple contributes, whatever the other tuples are; a tuple
\* holding the "-" of a negative chunk value is not one of digits, and
\* contributes what steps 7 and 8 make of it alone
TupleContribution(t) ==
    IF ~AllDigits(t) THEN deckListOutput(decodedEntries(t))
    ELSE IF TupleDropped(t) THEN <<>>
    ELSE Repeat(TupleIdentifier(t), TupleRepeat(t))

DroppedForCountDigit ==
    /\ DecodedPayload
    /\ \E k \in 1..DecTupleCount :
        AllDigits(DecTuple(k)) /\ DigitVal(DecTuple(k)[5]) \in {0, 5}
    /\ kcgDecoded.value # <<>>
DroppedForTypeDigit ==
    /\ DecodedPayload
    /\ \E k \in 1..DecTupleCount :
        /\ AllDigits(DecTuple(k))
        /\ DigitVal(DecTuple(k)[5]) \notin {0, 5}
        /\ DigitVal(DecTuple(k)[2]) \notin 1..4
    /\ kcgDecoded.value # <<>>

\* L regrouped: the distinct identifiers in order of first occurrence,
\* each repeated consecutively as many times as it occurs in L
Regrouped(L) ==
    LET d == FirstOccurrences(L)
    IN  Concat([k \in 1..Len(d) |-> Repeat(d[k], Occurrences(L, d[k]))])

C18_PreList ==
    \A id \in Range(cardIds) :
        /\ CARD_ID_REGEX_test(id)
        /\ ExpansionOf(id) \in MappedExpansions
        /\ CanonicalNumber(NumberOf(id))
        /\ Occurrences(cardIds, id) \in 1..4

DecodesRegrouped ==
    /\ Encoded => kcgCode.ok
    /\ pc = "decoded" => kcgDecoded.ok /\ kcgDecoded.value = Regrouped(cardIds)

\* C18 as stated: for every list L, the empty list included
C18_DecodeOrder_AsStated == C18_PreList => DecodesRegrouped

\* C18 as amended: for every non-empty list L of identifiers with expansion
\* in {ex, prm, A..R}, type in {A,S,M,D}, number 1..50 written without
\* leading zeros and per-identifier count 1..4,
\* decodeKcgDeckCode(encodeKcgDeckCode(L)) is exactly L regrouped: the
\* distinct identifiers in order of first occurrence in L, each repeated
\* consecutively as many times as it occurs in L
C18_DecodeOrder == (cardIds # <<>> /\ C18_PreList) => DecodesRegrouped

\* a decoded list of three identifiers whose copies were not consecutive
C18_Witness ==
    /\ pc = "decoded"
    /\ C18_PreList
    /\ Len(FirstOccurrences(cardIds)) = 3
    /\ cardIds # Regrouped(cardIds)
    /\ kcgDecoded.value = Regrouped(cardIds)

-----------------------------------------------------------------------------
(* Scenario: every identifier of the compact format, with every count, is   *)
(* encoded alone and the code decoded                                      *)

\* (expansion, type, number, count) of the format
TuplePairs ==
    (Range(TABLE_LOW) \cup Range(TABLE_HIGH)) \X Range(TYPE_LETTERS)
        \X (1..50) \X (1..4)

PairId(p) == CardId(p[1], p[2], NatToString(p[3]))

TupleInputs == { Repeat(PairId(p), p[4]) : p \in TuplePairs }

TupleInit ==
    /\ AsyncIdle
    /\ PackIdle
    /\ StoreIdle
    /\ pc = "kcg"
    /\ cardIds \in TupleInputs
    /\ kcgCode = NoResult
    /\ rawCode = <<>>
    /\ kcgDecoded = NoResult
    /\ slashCode = <<>>
    /\ catalog = <<>>
    /\ slashResult = NoResult
    /\ adapterResult = NoResult
    /\ deckCards = <<>>
    /\ lastOp = NoResult

SpecTuple == TupleInit /\ [][KcgNext]_vars

\* the tuples of all pairs
TupleImage == { EncodeTuple(PairId(p), p[4]).value : p \in TuplePairs }

\* 0-based position of x in a table
TableIndex(table, x) == (CHOOSE i \in 1..Len(table) : table[i] = x) - 1

\* C19: for every expansion in {ex, A..I, prm, J..R}, type in {A,S,M,D},
\* number in 1..50 and count n in 1..4, the encoder's tuple has c1 = the
\* expansion's index in TABLE_LOW or TABLE_HIGH, c2 = 1..4 for A,S,M,D and
\* c5 = n for TABLE_LOW or n+5 for TABLE_HIGH; the decoder's step 7 applied
\* to that tuple yields the same identifier and repeat count n; and two
\* different (identifier, count) pairs never produce the same tuple
C19_TupleInvertible ==
    (Encoded /\ cardIds \in TupleInputs) =>
        LET id == cardIds[1]
            n == Len(cardIds)
            low == ExpansionOf(id) \in Range(TABLE_LOW)
            tuple == EncNumericString
        IN  /\ kcgCode.ok
            /\ Len(tuple) = 5
            /\ AllDigits(tuple)
            /\ DigitVal(tuple[1]) =
                TableIndex(IF low THEN TABLE_LOW ELSE TABLE_HIGH, ExpansionOf(id))
            /\ DigitVal(tuple[2]) = 1 + TableIndex(TYPE_LETTERS, TypeOf(id)[1])
            /\ DigitVal(tuple[5]) = IF low THEN n ELSE n + 5
            /\ decodedEntries(tuple) = <<<<id, DigitVal(tuple[5])>>>>
            /\ deckListOutput(decodedEntries(tuple)) = Repeat(id, n)
            /\ pc = "decoded" => kcgDecoded = Ok(Repeat(id, n))
            /\ Cardinality(TupleImage) = Cardinality(TuplePairs)

\* the last identifier of TABLE_HIGH with the largest number and count,
\* encoded and decoded
C19_Witness ==
    /\ pc = "decoded"
    /\ cardIds = Repeat(CardId(<<"R">>, "D", <<"5", "0">>), 4)
    /\ EncNumericString = <<"9", "4", "5", "0", "9">>
    /\ kcgDecoded.value = cardIds

-----------------------------------------------------------------------------
(* Scenario: one run of three digits is packed into 10 bits by the encoder  *)
(* and the 10 bits are read back by the decoder                            *)

\* the runs of three digits, "000" .. "999"
RunInputs == { <<Digits[a], Digits[b], Digits[c]>> : a, b, c \in 1..10 }

PackInit ==
    /\ AsyncIdle
    /\ CodecIdle("run")
    /\ StoreIdle
    /\ runDigits \in RunInputs
    /\ runBits = <<>>
    /\ runNVal = 0

\* r.push(parseInt(run)), 500 - e, and the 10 bits of the run
PackRun ==
    /\ pc = "run"
    /\ runBits' = binaryStringOf(runDigits)
    /\ pc' = "packed"
    /\ UNCHANGED <<cardIds, kcgCode, rawCode, kcgDecoded, slashCode, catalog,
                   slashResult, adapterResult, deckCards, lastOp>>
    /\ UNCHANGED <<asyncVars, storeVars, runDigits, runNVal>>

\* step 5 of the decoder on these 10 bits
UnpackChunk ==
    /\ pc = "packed"
    /\ runNVal' = ChunkNVal(runBits)
    /\ pc' = "unpacked"
    /\ UNCHANGED <<cardIds, kcgCode, rawCode, kcgDecoded, slashCode, catalog,
                   slashResult, adapterResult, deckCards, lastOp>>
    /\ UNCHANGED <<asyncVars, storeVars, runDigits, runBits>>

PackNext == PackRun \/ UnpackChunk

SpecPack == PackInit /\ [][PackNext]_vars

\* the run value e
RunValue == DigitsValue(runDigits)

\* the unsigned value of the emitted bits
EmittedValue == ParseBinary(runBits)

\* C20: for every run value e in 0..999 the encoder emits the 10-bit binary
\* of 500-e when 500-e >= 0 and of 1024+(500-e) otherwise; the emitted
\* unsigned value lies in 0..500 or 525..1023; and the decoder's reading of
\* the chunk returns n = e
C20_PackingInvertible ==
    /\ pc \in {"packed", "unpacked"} =>
        /\ RunValue \in 0..999
        /\ Len(runBits) = 10
        /\ \A i \in 1..10 : runBits[i] \in {"0", "1"}
        /\ EmittedValue =
            IF 500 - RunValue >= 0 THEN 500 - RunValue ELSE 1024 + (500 - RunValue)
        /\ EmittedValue \in (0..500) \cup (525..1023)
        /\ runBits[1] = "1" <=> RunValue > 500
    /\ pc = "unpacked" => runNVal = RunValue

\* the largest run, 999, whose difference is negative, packed and read back
C20_Witness ==
    /\ pc = "unpacked"
    /\ runDigits = <<"9", "9", "9">>
    /\ EmittedValue = 525
    /\ runNVal = 999

\* the encoder reached the header step: no tuple was refused and the bit
\* string is not empty
ReachedHeader ==
    /\ Encoded
    /\ numericStringOf(cardIds).ok
    /\ EncNumericString # <<>>

\* p: the zero bits needed to make the bit string a multiple of 6
PaddingNeeded ==
    CHOOSE p \in 0..5 : (Len(EncBinaryString) + p) % 6 = 0

\* z: the 3-bit groups of the padded bit string that are "000"
ZeroGroups ==
    LET padded == EncBinaryString \o Repeat("0", PaddingNeeded)
    IN  Cardinality({j \in 1..(Len(padded) \div 3) :
            \A i \in (3 * j - 2)..(3 * j) : padded[i] = "0"})

\* C21: on every input on which encodeKcgDeckCode reaches the header step
\* the header is KCG_CHAR_MATRIX[7 - p][7 - (z mod 8)], p being the number
\* of zero bits appended and z the number of "000" groups of the padded bit
\* string; p is 0, 2 or 4, so the row is 7, 5 or 3 and the generation
\* errors for an invalid s or c value are never raised
C21_HeaderSymbol ==
    /\ ReachedHeader =>
        /\ kcgCode.ok
        /\ PaddingNeeded \in {0, 2, 4}
        /\ kcgCode.value[5] =
            KCG_CHAR_MATRIX[(7 - PaddingNeeded) + 1][(7 - (ZeroGroups % 8)) + 1]
    /\ Encoded => kcgCode.reason \notin {"s", "c"}

\* a code whose bit string needed 4 zero bits and held a "000" group
C21_Witness ==
    /\ ReachedHeader
    /\ PaddingNeeded = 4
    /\ ZeroGroups > 0
    /\ kcgCode.value[5] \in Range(KCG_CHAR_MATRIX[4])

\* the decoder's string before and after the trailing adjustment of step 6
PayloadIntermediate ==
    LET payload == Substring(rawCode, 4, Len(rawCode))
    IN  intermediateString(
            processedBinaryPayload(
                initialBinaryPayload(Substring(payload, 1, Len(payload))),
                charsToRemoveFromPayloadEnd(payload[1])))
PayloadAdjusted == adjustedString(PayloadIntermediate)

\* C22: for every non-empty payload over the alphabet, after the trailing
\* adjustment of step 6 the length of the numeric string is a multiple of
\* 5, exactly length mod 5 characters having been removed, and the
\* validation error for a length that is not a multiple of 5 is never raised
C22_AdjustedLength ==
    DecodedPayload =>
        /\ Len(PayloadAdjusted) % 5 = 0
        /\ Len(PayloadAdjusted) =
            Len(PayloadIntermediate) - (Len(PayloadIntermediate) % 5)
        /\ kcgDecoded.reason # "length"
        /\ kcgDecoded.ok

\* a payload whose string lost a placeholder and then two real characters
C22_Witness ==
    /\ DecodedPayload
    /\ Len(PayloadIntermediate) % 5 = 3
    /\ Cardinality({i \in 1..Len(PayloadIntermediate) :
            PayloadIntermediate[i] = "X"}) = 1
    /\ "X" \notin Range(PayloadAdjusted)
    /\ kcgDecoded.ok

\* the bits of the body, 6 per symbol after the header, and the bits the
\* header says to remove
BodyBits == 6 * (Len(rawCode) - 5)
HeaderBitsToRemove == charsToRemoveFromPayloadEnd(rawCode[5])

\* C23: when the code is "KCG-" followed by alphabet symbols whose body bit
\* string is shorter than the number of bits the header says to remove, in
\* particular when the payload is the header symbol alone,
\* decodeKcgDeckCode returns the empty list and raises no error
C23_ShortPayload ==
    (DecodedPayload /\ (BodyBits < HeaderBitsToRemove \/ Len(rawCode) = 5)) =>
        kcgDecoded = Ok(<<>>)

\* one body symbol, six bits, under a header that asks for seven
C23_Witness ==
    /\ DecodedPayload
    /\ Len(rawCode) = 6
    /\ HeaderBitsToRemove = 7
    /\ kcgDecoded = Ok(<<>>)

\* the header symbol alone, whatever it asks to remove
HeaderAlone ==
    /\ DecodedPayload
    /\ Len(rawCode) = 5
    /\ HeaderBitsToRemove = 0
    /\ kcgDecoded = Ok(<<>>)

-----------------------------------------------------------------------------
(* Storage: deserializeDeckCards, and initializeDeck of the deck store      *)

\* GAME_CONSTANTS.MAX_DECK_SIZE: a parameter of the model, as
\* MAX_CARD_COPIES is
MAX_DECK_SIZE == 6

Math_min(a, b) == IF a <= b THEN a ELSE b

\* Number.isInteger(count) && count > 0 ? count : 0; NaN stands for
\* every count that is not an integer
PositiveIntegerOrZero(count) == IF ~IsNaN(count) /\ count > 0 THEN count ELSE 0

\* aggregated.get(id) ?? 0
AggregatedGet(aggregated, id) ==
    IF \E k \in 1..Len(aggregated) : aggregated[k].id = id
    THEN aggregated[CHOOSE k \in 1..Len(aggregated) : aggregated[k].id = id].count
    ELSE 0

\* aggregated.set(id, next): the place of an id already there is kept
AggregatedSet(aggregated, id, next) ==
    IF \E k \in 1..Len(aggregated) : aggregated[k].id = id
    THEN [k \in 1..Len(aggregated) |->
            IF aggregated[k].id = id THEN [id |-> id, count |-> next] ELSE aggregated[k]]
    ELSE Append(aggregated, [id |-> id, count |-> next])

\* mutant of aggregatedOf: the sum is not clamped
RECURSIVE aggregatedOf_noClamp(_)
aggregatedOf_noClamp(items) ==
    IF items = <<>> THEN <<>>
    ELSE LET prev == aggregatedOf_noClamp(SubSeq(items, 1, Len(items) - 1))
             item == items[Len(items)]
             n == PositiveIntegerOrZero(item.count)
         IN  IF n = 0 THEN prev
             ELSE AggregatedSet(prev, item.id, AggregatedGet(prev, item.id) + n)

\* step 1: the counts of one id summed, clamped at every step
RECURSIVE aggregatedOf(_)
aggregatedOf(items) ==
    IF items = <<>> THEN <<>>
    ELSE LET prev == aggregatedOf(SubSeq(items, 1, Len(items) - 1))
             item == items[Len(items)]
             n == PositiveIntegerOrZero(item.count)
             next == Math_min(AggregatedGet(prev, item.id) + n, MAX_CARD_COPIES)
         IN  IF n = 0 THEN prev ELSE AggregatedSet(prev, item.id, next)

\* step 2: the cards of the catalog only, until MAX_DECK_SIZE is used up
RECURSIVE RestoreFrom(_, _, _)
RestoreFrom(aggregated, availableCards, remaining) ==
    IF aggregated = <<>> \/ remaining <= 0 THEN <<>>
    ELSE LET id == Head(aggregated).id
             use == Math_min(Head(aggregated).count, remaining)
         IN  IF HasCard(availableCards, id) /\ use > 0
             THEN <<[card |-> GetCard(availableCards, id), count |-> use]>>
                    \o RestoreFrom(Tail(aggregated), availableCards, remaining - use)
             ELSE RestoreFrom(Tail(aggregated), availableCards, remaining)

deserializeDeckCards(serializedDeck, availableCards) ==
    RestoreFrom(aggregatedOf(serializedDeck), availableCards, MAX_DECK_SIZE)

\* the list saved in local storage: up to MaxStored items, the ids in the
\* catalog or not, the counts not integers, zero, inside and above 1..MAX_CARD_COPIES
MaxStored == 3
StoredIds ==
    { CardId(<<"A">>, "A", <<"1">>), CardId(<<"B">>, "S", <<"2">>),
      CardId(<<"Z">>, "D", <<"7">>) }
StoredCounts == {NaN, 0, 1, MAX_CARD_COPIES - 1, MAX_CARD_COPIES + 1}
StoredItems == { [id |-> id, count |-> c] : id \in StoredIds, c \in StoredCounts }

LoadInit ==
    /\ AsyncIdle
    /\ PackIdle
    /\ pc = "load"
    /\ deckCardsStorage \in SeqsUpTo(StoredItems, MaxStored)
    /\ catalog \in {CatalogFull, CatalogDup}
    /\ loadedState = "none"
    /\ CodeStoreIdle
    /\ SaveIdle
    /\ deckNameStorage = DEFAULT_DECK_NAME
    /\ cardIds = <<>>
    /\ kcgCode = NoResult
    /\ rawCode = <<>>
    /\ kcgDecoded = NoResult
    /\ slashCode = <<>>
    /\ slashResult = NoResult
    /\ adapterResult = NoResult
    /\ deckCards = <<>>
    /\ lastOp = NoResult

\* deckCards.value = [...newCards] by the function origin: the ref holds a
\* new array, so the job of the deckCards watcher is queued
QueueCards(jobs, origin) == [jobs EXCEPT !.deckCards = origin]

\* deckName.value = name by the function origin: the job of the deckName
\* watcher is queued when the value changes
QueueName(jobs, origin, old, name) ==
    IF name # old THEN [jobs EXCEPT !.deckName = origin] ELSE jobs

\* initializeDeck(availableCards): suppressSave is set; the saved deck is
\* loaded, its state computed, and the deck of the store replaced (an
\* invalid saved deck is cleared from local storage); the saved name is
\* loaded; suppressSave is set back in the finally block
InitializeDeck ==
    /\ pc = "load"
    /\ LET prev == suppressSave
           loadedDeck == deserializeDeckCards(deckCardsStorage, catalog)
           s == calculateDeckState(loadedDeck)
           n == Trim(deckNameStorage)
           name == IF n = <<>> THEN DEFAULT_DECK_NAME ELSE n
       IN  /\ loadedState' = s
           /\ deckCards' = IF s = "valid" THEN loadedDeck ELSE <<>>
           /\ deckCardsStorage' = IF s = "invalid" THEN <<>> ELSE deckCardsStorage
           /\ deckName' = name
           /\ queuedJobs' = QueueName(QueueCards(queuedJobs, "initializeDeck"),
                                      "initializeDeck", deckName, name)
           /\ suppressSave' = prev
    /\ pc' = "loaded"
    /\ UNCHANGED <<cardIds, kcgCode, rawCode, kcgDecoded, slashCode, catalog,
                   slashResult, adapterResult, lastOp>>
    /\ UNCHANGED <<asyncVars, packVars, codeStoreVars, deckNameStorage, seenName,
                   debounced, lastSave>>

LoadNext == InitializeDeck

SpecLoad == LoadInit /\ [][LoadNext]_vars

\* entries with pairwise distinct ids that all belong to the catalog, each
\* count in 1..MAX_CARD_COPIES, the total at most MAX_DECK_SIZE
LoadableDeck(cards) ==
    /\ \A i, j \in 1..Len(cards) : cards[i].card.id = cards[j].card.id => i = j
    /\ \A i \in 1..Len(cards) :
        /\ \E k \in 1..Len(catalog) : catalog[k] = cards[i].card
        /\ cards[i].count \in 1..MAX_CARD_COPIES
    /\ calculateTotalCards(cards) <= MAX_DECK_SIZE

\* C24: for every serialized deck and every catalog, deserializeDeckCards
\* returns entries with pairwise distinct ids that all belong to the
\* catalog, each count in 1..MAX_CARD_COPIES, and a total of at most
\* MAX_DECK_SIZE; calculateDeckState of a loaded deck is never invalid, so
\* initializeDeck never takes its invalid branch
C24_LoadedDeckValid ==
    /\ pc = "load" =>
        /\ LoadableDeck(deserializeDeckCards(deckCardsStorage, catalog))
        /\ calculateDeckState(deserializeDeckCards(deckCardsStorage, catalog)) # "invalid"
    /\ pc = "loaded" =>
        /\ loadedState \in {"empty", "valid"}
        /\ LoadableDeck(deckCards)

\* a saved deck that is too large, one of its counts above MAX_CARD_COPIES,
\* loaded as a full deck
C24_Witness ==
    /\ pc = "loaded"
    /\ loadedState = "valid"
    /\ calculateTotalCards(deckCards) = MAX_DECK_SIZE
    /\ \E k \in 1..Len(deckCardsStorage) : deckCardsStorage[k].count > MAX_CARD_COPIES
    /\ \E k \in 1..Len(deckCards) : deckCards[k].count < MAX_CARD_COPIES

\* C25: whenever encodeKcgDeckCode succeeds on a list of identifiers that
\* all satisfy the card-identifier grammar (any number matching \d+),
\* decoding the returned code and re-aggregating yields the identifier ->
\* count mapping of the input.  The encoder accepts numbers the format
\* cannot carry: "AA-51" is encoded and then dropped by the decoder,
\* "AA-01" comes back as "AA-1", "AA-100" and "AA-0" shift every tuple.
C25_NoSilentLoss ==
    (pc = "decoded" /\ AllInGrammar) =>
        /\ kcgDecoded.ok
        /\ CountsOf(kcgDecoded.value) = CountsOf(cardIds)

\* a code returned for a list that holds a card numbered 51, decoded
\* without error and without that card
C25_CardLost ==
    /\ pc = "decoded"
    /\ AllInGrammar
    /\ kcgCode.ok
    /\ kcgDecoded.ok
    /\ \E id \in Range(cardIds) :
        /\ NumberOf(id) = <<"5", "1">>
        /\ id \notin Range(kcgDecoded.value)
    /\ Range(kcgDecoded.value) = Range(cardIds) \ {CardId(<<"A">>, "A", <<"5", "1">>)}
    /\ Len(cardIds) > 1

\* identifiers the compact format carries: mapped expansion and type, a
\* number 1..50 in one or two digits, each 1 to 4 times
C26_Pre ==
    /\ Encoded
    /\ kcgCode.ok
    /\ \A id \in Range(cardIds) :
        /\ CARD_ID_REGEX_test(id)
        /\ ExpansionOf(id) \in MappedExpansions
        /\ Len(NumberOf(id)) \in {1, 2}
        /\ ParseInt(NumberOf(id)) \in 1..50
        /\ Occurrences(cardIds, id) \in 1..4

\* the decoder's string for the encoder's code, before and after step 6
CodeIntermediate == intermediateString(DecProcessed)
CodeAdjusted == adjustedString(CodeIntermediate)

CountX(s) == Cardinality({i \in 1..Len(s) : s[i] = "X"})
WithoutX(s) == SelectSeq(s, LAMBDA ch : ch # "X")

-----------------------------------------------------------------------------
(* Sorting of the deck (domain/deck.ts)                                    *)

Alphabet ==
    << "A", "B", "C", "D", "E", "F", "G", "H", "I", "J", "K", "L", "M",
       "N", "O", "P", "Q", "R", "S", "T", "U", "V", "W", "X", "Y", "Z" >>
LowerAlphabet ==
    << "a", "b", "c", "d", "e", "f", "g", "h", "i", "j", "k", "l", "m",
       "n", "o", "p", "q", "r", "s", "t", "u", "v", "w", "x", "y", "z" >>

ToLowerCase(s) ==
    [k \in 1..Len(s) |->
        IF IndexOf(Alphabet, s[k]) # -1
        THEN LowerAlphabet[IndexOf(Alphabet, s[k]) + 1] ELSE s[k]]

\* the collation keys of a run of letters under sensitivity "base": the
\* place of each letter in the alphabet, whatever its case
BaseKeys(s) == [k \in 1..Len(s) |-> IndexOf(LowerAlphabet, ToLowerCase(s)[k])]

\* the order of two sequences of keys; a sequence that is a prefix of the
\* other one comes first, as the "-" that follows it sorts before a letter
RECURSIVE CompareKeys(_, _)
CompareKeys(x, y) ==
    IF x = <<>> /\ y = <<>> THEN 0
    ELSE IF x = <<>> THEN -1
    ELSE IF y = <<>> THEN 1
    ELSE IF Head(x) # Head(y) THEN Head(x) - Head(y)
    ELSE CompareKeys(Tail(x), Tail(y))

\* collator.compare(a, b) of Intl.Collator("ja", {numeric, sensitivity:
\* "base"}) on card identifiers: the letters before the "-" without regard
\* to case, then the digits after it as a number
naturalSort(a, b) ==
    LET lettersOf(id) == Substring(id, 0, IndexOf(id, "-"))
        numberOf(id) == ParseInt(Substring(id, IndexOf(id, "-") + 1, Len(id)))
        c == CompareKeys(BaseKeys(lettersOf(a)), BaseKeys(lettersOf(b)))
    IN  IF c # 0 THEN c ELSE numberOf(a) - numberOf(b)

\* EX_PRM_ID_RE.test(id): /^(?:ex|prm)/i
EX_PRM_ID_RE_test(id) ==
    \/ StartsWith(ToLowerCase(id), <<"e", "x">>)
    \/ StartsWith(ToLowerCase(id), <<"p", "r", "m">>)

\* compareCards: kind, then type, then ex/prm identifiers last, then the
\* identifier; kind and type of a card are held as their places in
\* CARD_KINDS and CARD_TYPES
compareCards(a, b) ==
    IF a.kind # b.kind THEN a.kind - b.kind
    ELSE IF a.type # b.type THEN a.type - b.type
    ELSE IF EX_PRM_ID_RE_test(a.id) # EX_PRM_ID_RE_test(b.id)
    THEN (IF EX_PRM_ID_RE_test(a.id) THEN 1 ELSE -1)
    ELSE naturalSort(a.id, b.id)

compareDeckCards(a, b) == compareCards(a.card, b.card)

\* [...deckCards].sort(compareDeckCards): Array.prototype.sort is stable,
\* an entry goes behind the entries that compare equal to it
RECURSIVE sortDeckCards(_)
sortDeckCards(cards) ==
    IF cards = <<>> THEN <<>>
    ELSE LET n == Len(cards)
             sorted == sortDeckCards(SubSeq(cards, 1, n - 1))
             before == SelectSeq(sorted, LAMBDA e : compareDeckCards(e, cards[n]) <= 0)
             after == SelectSeq(sorted, LAMBDA e : compareDeckCards(e, cards[n]) > 0)
         IN  before \o <<cards[n]>> \o after

-----------------------------------------------------------------------------
(* The deck store and the deck-code store                                  *)

\* setDeckCards(cards): the value of deckCards afterwards; an invalid deck
\* is reported on the console and the deck of the store stays
setDeckCards(current, cards) ==
    IF calculateDeckState(cards) = "invalid" THEN current ELSE cards

detectDeckCodeFormat(code) ==
    LET s == Trim(code)
    IN  IF StartsWith(s, KcgPrefix) THEN "kcg"
        ELSE IF Includes(s, <<"/">>) THEN "slash"
        ELSE "unknown"

\* sortedDeck.flatMap(item => Array(item.count).fill(item.card.id))
cardIdsOfDeck(sortedDeck) ==
    Concat([k \in 1..Len(sortedDeck) |->
                Repeat(sortedDeck[k].card.id, sortedDeck[k].count)])

\* what is recorded of a call of a store function: its name, the code or
\* deck it worked on, the format it detected, the path it took and the
\* deckCards it decoded
Call(fn, arg, format, path, decoded) ==
    [fn |-> fn, arg |-> arg, format |-> format, path |-> path, decoded |-> decoded]

\* number of store functions called in one run: of the deck-code store,
\* and of the deck store once initializeDeck has loaded the saved deck
MaxStoreSteps == 5
MaxSaveSteps == 3
StepsLeft == storeSteps < (IF pc = "store" THEN MaxStoreSteps ELSE MaxSaveSteps)

StoreCard(id, name, kind, type) == [id |-> id, name |-> name, kind |-> kind, type |-> type]

\* the catalog of the run: a card whose expansion the KCG tables do not
\* map, and an ex card that sorts behind the other card of its type
StoreCatalog ==
    << StoreCard(CardId(<<"A">>, "A", <<"1">>), "a", 0, 1),
       StoreCard(CardId(<<"S">>, "A", <<"1">>), "s", 0, 0),
       StoreCard(CardId(<<"e", "x">>, "A", <<"1">>), "x", 0, 1) >>

\* codes typed into the import field: a slash code with one copy more than
\* MAX_CARD_COPIES of a card, and a KCG code of two tuples for one card
FiveCopies == JoinSlash(Repeat(CardId(<<"A">>, "A", <<"1">>), MAX_CARD_COPIES + 1))
TwoTuples ==
    EncodeDigits(EncodeTuple(CardId(<<"A">>, "A", <<"1">>), 3).value
                 \o EncodeTuple(CardId(<<"A">>, "A", <<"1">>), 3).value).value
TypedCodes == {FiveCopies, TwoTuples}

StoreInit ==
    /\ AsyncIdle
    /\ PackIdle
    /\ pc = "store"
    /\ catalog = StoreCatalog
    /\ deckCards = <<>>
    /\ StoreIdle
    /\ cardIds = <<>>
    /\ kcgCode = NoResult
    /\ rawCode = <<>>
    /\ kcgDecoded = NoResult
    /\ slashCode = <<>>
    /\ slashResult = NoResult
    /\ adapterResult = NoResult
    /\ lastOp = NoResult

StoreUnchanged ==
    UNCHANGED <<pc, cardIds, kcgCode, rawCode, kcgDecoded, slashCode, catalog,
                slashResult, adapterResult, lastOp, asyncVars, packVars,
                loadedState, suppressSave, deckName, seenName>>

\* a function of the deck store that goes through applyOperation
StoreOperation(operation) ==
    LET result == executeDeckOperation(deckCards, operation)
    IN  /\ pc \in {"store", "loaded"}
        /\ StepsLeft
        /\ storeSteps' = storeSteps + 1
        /\ deckCards' = (IF result.ok THEN result.value ELSE deckCards)
        /\ queuedJobs' = (IF result.ok THEN QueueCards(queuedJobs, operation.type)
                          ELSE queuedJobs)
        /\ lastCall' = Call(operation.type, operation.cardId, "none",
                            IF result.ok THEN "success" ELSE "failure", <<>>)
        /\ UNCHANGED <<importDeckCode, showDeckCodeModal, slashDeckCode,
                       kcgDeckCode, codeError, generatedFor,
                       deckCardsStorage, deckNameStorage, debounced, lastSave>>
        /\ StoreUnchanged

AddCardToDeck ==
    \E k \in 1..Len(StoreCatalog) :
        StoreOperation(Operation("addCard", StoreCatalog[k], StoreCatalog[k].id, 0))

RemoveCardFromDeck ==
    \E k \in 1..Len(StoreCatalog) :
        StoreOperation(Operation("removeCard", NoCard, StoreCatalog[k].id, 0))

\* generateDeckCodes(), and generateAndShowDeckCode() when show is TRUE
generateDeckCodes(show) ==
    LET sortedDeck == sortDeckCards(deckCards)
        ids == cardIdsOfDeck(sortedDeck)
        encoded == encodeKcgDeckCode(ids)
    IN  /\ pc = "store"
        /\ StepsLeft
        /\ storeSteps' = storeSteps + 1
        /\ slashDeckCode' = (IF Len(deckCards) = 0 THEN <<>> ELSE JoinSlash(ids))
        /\ kcgDeckCode' = (IF Len(deckCards) = 0 THEN <<>>
                           ELSE IF encoded.ok THEN encoded.value
                           ELSE kcgDeckCode)
        /\ codeError' = (IF Len(deckCards) # 0 /\ ~encoded.ok
                         THEN "generation" ELSE "none")
        /\ showDeckCodeModal' = (IF show THEN TRUE ELSE showDeckCodeModal)
        /\ generatedFor' = deckCards
        /\ lastCall' = Call("generateDeckCodes", deckCards, "none",
                            IF Len(deckCards) # 0 /\ ~encoded.ok
                            THEN "failure" ELSE "success", <<>>)
        /\ UNCHANGED <<deckCards, importDeckCode, queuedJobs,
                       deckCardsStorage, deckNameStorage, debounced, lastSave>>
        /\ StoreUnchanged

GenerateDeckCodes == generateDeckCodes(FALSE)
GenerateAndShowDeckCode == generateDeckCodes(TRUE)

\* setImportDeckCode(code): a typed code, or one of the generated codes
\* pasted back
SetImportDeckCode ==
    \E code \in TypedCodes \cup {slashDeckCode, kcgDeckCode} :
        /\ pc = "store"
        /\ StepsLeft
        /\ storeSteps' = storeSteps + 1
        /\ importDeckCode' = code
        /\ lastCall' = Call("setImportDeckCode", code, "none", "success", <<>>)
        /\ UNCHANGED <<deckCards, showDeckCodeModal, slashDeckCode, kcgDeckCode,
                       codeError, generatedFor, queuedJobs,
                       deckCardsStorage, deckNameStorage, debounced, lastSave>>
        /\ StoreUnchanged

\* importDeckFromCode(availableCards)
ImportDeckFromCode ==
    LET trimmedCode == Trim(importDeckCode)
        format == detectDeckCodeFormat(trimmedCode)
        kcg == decodeKcgDeckCode(trimmedCode)
        slash == decodeDeckCode(trimmedCode, catalog)
        decodedOk == IF format = "kcg" THEN kcg.ok /\ Len(kcg.value) > 0
                     ELSE IF format = "slash" THEN slash.ok
                     ELSE FALSE
        result == IF format = "kcg" THEN toDeckCardsFromCardIds(kcg.value, catalog)
                  ELSE slash.value
        imported == decodedOk /\ Len(result.deckCards) > 0
    IN  /\ pc = "store"
        /\ StepsLeft
        /\ storeSteps' = storeSteps + 1
        /\ deckCards' = (IF trimmedCode # <<>> /\ imported
                         THEN setDeckCards(deckCards, result.deckCards)
                         ELSE deckCards)
        /\ queuedJobs' = (IF /\ trimmedCode # <<>>
                             /\ imported
                             /\ calculateDeckState(result.deckCards) # "invalid"
                          THEN QueueCards(queuedJobs, "setDeckCards")
                          ELSE queuedJobs)
        /\ importDeckCode' = (IF trimmedCode # <<>> /\ imported
                              THEN <<>> ELSE importDeckCode)
        /\ showDeckCodeModal' = (IF trimmedCode # <<>> /\ imported
                                 THEN FALSE ELSE showDeckCodeModal)
        /\ codeError' = (IF trimmedCode = <<>> THEN "validation"
                         ELSE IF format = "unknown" THEN "validation"
                         ELSE IF ~imported THEN "decode"
                         ELSE IF Len(result.missingCardIds) > 0 THEN "decode"
                         ELSE "none")
        /\ lastCall' = (IF trimmedCode = <<>>
                        THEN Call("importDeckFromCode", importDeckCode, "none",
                                  "failure", <<>>)
                        ELSE Call("importDeckFromCode", importDeckCode, format,
                                  IF imported THEN "success" ELSE "failure",
                                  IF imported THEN result.deckCards ELSE <<>>))
        /\ UNCHANGED <<slashDeckCode, kcgDeckCode, generatedFor,
                       deckCardsStorage, deckNameStorage, debounced, lastSave>>
        /\ StoreUnchanged

\* what a step of the scheduler or a timer leaves alone
SchedulerUnchanged ==
    UNCHANGED <<codecVars, asyncVars, packVars, loadedState, codeStoreVars,
                suppressSave, deckName>>

\* deck.map(item => ({id: item.card.id, count: item.count}))
serializeDeckCards(deck) ==
    [k \in 1..Len(deck) |-> [id |-> deck[k].card.id, count |-> deck[k].count]]

\* a call of a debounced save: the timer is set anew, with these arguments
Timer(args, origin) == [pending |-> TRUE, args |-> args, origin |-> origin]

\* the scheduler flushes its queue after the synchronous code has returned:
\* the deckName watcher (flush "pre") runs its callback when the name
\* differs from the one it saw last, then the deckCards watcher (flush
\* "post") runs its callback; each callback tests suppressSave and calls
\* its debounced save
FlushJobs ==
    LET nameRuns == queuedJobs.deckName # "none" /\ deckName # seenName
        cardsRuns == queuedJobs.deckCards # "none"
    IN  /\ queuedJobs # NoJobs
        /\ queuedJobs' = NoJobs
        /\ seenName' = (IF queuedJobs.deckName # "none" THEN deckName ELSE seenName)
        /\ debounced' =
            [deckName |-> IF nameRuns /\ ~suppressSave
                          THEN Timer(deckName, queuedJobs.deckName)
                          ELSE debounced.deckName,
             deckCards |-> IF cardsRuns /\ ~suppressSave
                           THEN Timer(deckCards, queuedJobs.deckCards)
                           ELSE debounced.deckCards]
        /\ UNCHANGED <<deckCardsStorage, deckNameStorage, lastSave>>
        /\ SchedulerUnchanged

\* the timer of debouncedSave fires: saveDeckToLocalStorage(cards); a timer
\* fires when the scheduler's queue is empty
DebouncedSave ==
    /\ queuedJobs = NoJobs
    /\ debounced.deckCards.pending
    /\ deckCardsStorage' = serializeDeckCards(debounced.deckCards.args)
    /\ lastSave' = [key |-> "deckCards", origin |-> debounced.deckCards.origin]
    /\ debounced' = [debounced EXCEPT !.deckCards = NoTimer]
    /\ UNCHANGED <<deckNameStorage, queuedJobs, seenName>>
    /\ SchedulerUnchanged

\* the timer of debouncedSaveName fires: a blank name is not saved, any
\* other name is saved trimmed
DebouncedSaveName ==
    LET trimmed == Trim(debounced.deckName.args)
    IN  /\ queuedJobs = NoJobs
        /\ debounced.deckName.pending
        /\ deckNameStorage' = (IF trimmed = <<>> THEN deckNameStorage ELSE trimmed)
        /\ lastSave' = (IF trimmed = <<>> THEN lastSave
                        ELSE [key |-> "deckName", origin |-> debounced.deckName.origin])
        /\ debounced' = [debounced EXCEPT !.deckName = NoTimer]
        /\ UNCHANGED <<deckCardsStorage, queuedJobs, seenName>>
        /\ SchedulerUnchanged

\* what a function of the deck store leaves alone
DeckStoreUnchanged ==
    UNCHANGED <<pc, cardIds, kcgCode, rawCode, kcgDecoded, slashCode, catalog,
                slashResult, adapterResult, lastOp, asyncVars, packVars,
                loadedState, importDeckCode, showDeckCodeModal, slashDeckCode,
                kcgDeckCode, codeError, generatedFor, seenName, debounced,
                lastSave>>

\* resetDeckCards(): the saved deck is reset, then the deck is emptied
\* between setting suppressSave and setting it back
ResetDeckCards ==
    LET prev == suppressSave
    IN  /\ pc \in {"store", "loaded"}
        /\ StepsLeft
        /\ storeSteps' = storeSteps + 1
        /\ deckCardsStorage' = <<>>
        /\ deckCards' = <<>>
        /\ queuedJobs' = QueueCards(queuedJobs, "resetDeckCards")
        /\ suppressSave' = prev
        /\ lastCall' = Call("resetDeckCards", <<>>, "none", "success", <<>>)
        /\ UNCHANGED <<deckName, deckNameStorage>>
        /\ DeckStoreUnchanged

\* resetDeckName(): the saved name is reset, then the name is set to the
\* default between setting suppressSave and setting it back
ResetDeckName ==
    LET prev == suppressSave
    IN  /\ pc \in {"store", "loaded"}
        /\ StepsLeft
        /\ storeSteps' = storeSteps + 1
        /\ deckNameStorage' = DEFAULT_DECK_NAME
        /\ deckName' = DEFAULT_DECK_NAME
        /\ queuedJobs' = QueueName(queuedJobs, "resetDeckName", deckName,
                                   DEFAULT_DECK_NAME)
        /\ suppressSave' = prev
        /\ lastCall' = Call("resetDeckName", <<>>, "none", "success", <<>>)
        /\ UNCHANGED <<deckCards, deckCardsStorage>>
        /\ DeckStoreUnchanged

\* names typed by the user: a name, and a blank one
TypedNames == { <<"m", "y">>, <<" ">> }

\* setDeckName(name): nothing happens when the name is the current one
SetDeckName ==
    \E name \in TypedNames :
        /\ pc \in {"store", "loaded"}
        /\ StepsLeft
        /\ storeSteps' = storeSteps + 1
        /\ deckName' = name
        /\ queuedJobs' = QueueName(queuedJobs, "setDeckName", deckName, name)
        /\ lastCall' = Call("setDeckName", name, "none", "success", <<>>)
        /\ UNCHANGED <<deckCards, deckCardsStorage, deckNameStorage, suppressSave>>
        /\ DeckStoreUnchanged

StoreNext ==
    \/ AddCardToDeck
    \/ RemoveCardFromDeck
    \/ GenerateDeckCodes
    \/ GenerateAndShowDeckCode
    \/ SetImportDeckCode
    \/ ImportDeckFromCode
    \/ FlushJobs
    \/ DebouncedSave

SpecStore == StoreInit /\ [][StoreNext]_vars

-----------------------------------------------------------------------------
(* Claims about the stores                                                 *)

\* importDeckFromCode has returned on its success path: the import field
\* is cleared and the modal closed
ImportSucceeded ==
    /\ lastCall.fn = "importDeckFromCode"
    /\ lastCall.path = "success"
    /\ importDeckCode = <<>>
    /\ showDeckCodeModal = FALSE

\* C27: whenever importDeckFromCode has taken its success path, the deck
\* of the deck store equals the deckCards that were decoded from the code,
\* also when the code yields more than MAX_CARD_COPIES copies of a card
C27_ImportReplacesDeck ==
    ImportSucceeded => deckCards = lastCall.decoded

\* a slash code with one copy more than MAX_CARD_COPIES of a card was
\* imported: the success path was taken, no error is set, and the deck of
\* the store is not the decoded one
C27_DeckNotReplaced ==
    /\ ImportSucceeded
    /\ lastCall.arg = FiveCopies
    /\ lastCall.format = "slash"
    /\ calculateDeckState(lastCall.decoded) = "invalid"
    /\ codeError = "none"
    /\ deckCards # lastCall.decoded

\* the same for a KCG code that holds two tuples for one card
C27_DeckNotReplacedKcg ==
    /\ ImportSucceeded
    /\ lastCall.arg = TwoTuples
    /\ lastCall.format = "kcg"
    /\ calculateDeckState(lastCall.decoded) = "invalid"
    /\ deckCards # lastCall.decoded

\* an import on the success path replaces the deck whenever the decoded
\* deck holds no card more than MAX_CARD_COPIES times
ValidImportReplacesDeck ==
    (ImportSucceeded /\ calculateDeckState(lastCall.decoded) = "valid")
        => deckCards = lastCall.decoded

\* the cards of a deck with their counts, whatever their order
CardsAndCounts(cards) == { <<cards[k].card, cards[k].count>> : k \in 1..Len(cards) }

\* importDeckFromCode has returned, and the code in the import field was
\* the slashDeckCode that generateDeckCodes made of a non-empty valid deck
SlashCodeImported ==
    /\ lastCall.fn = "importDeckFromCode"
    /\ calculateDeckState(generatedFor) = "valid"
    /\ lastCall.arg = slashDeckCode

\* C28: the slashDeckCode that generateDeckCodes makes of a non-empty valid
\* deck, set as importDeckCode and imported against the same catalog, is
\* recognised as the slash format and restores the same cards and counts,
\* also for a deck of a single copy of a single card
C28_StoreSlashRoundTrip ==
    SlashCodeImported =>
        /\ lastCall.format = "slash"
        /\ lastCall.path = "success"
        /\ CardsAndCounts(deckCards) = CardsAndCounts(generatedFor)

\* the code of a deck of one copy of one card was generated, the card was
\* removed and the code imported: the format is not recognised, the error
\* is of type validation, and the deck stays empty
C28_SingleCardNotRecognised ==
    /\ SlashCodeImported
    /\ Len(generatedFor) = 1
    /\ generatedFor[1].count = 1
    /\ ~Includes(slashDeckCode, <<"/">>)
    /\ lastCall.format = "unknown"
    /\ lastCall.path = "failure"
    /\ codeError = "validation"
    /\ importDeckCode = slashDeckCode
    /\ deckCards = <<>>

\* a slash code that holds a "/" (two cards or more in the deck) comes back
\* as the deck it was made of
SlashRoundTripOfTwoCards ==
    (SlashCodeImported /\ Includes(slashDeckCode, <<"/">>)) =>
        /\ lastCall.format = "slash"
        /\ lastCall.path = "success"
        /\ CardsAndCounts(deckCards) = CardsAndCounts(generatedFor)

\* the identifiers generateDeckCodes hands to the encoder for a deck, and
\* what encodeKcgDeckCode makes of them
IdsOfDeck(cards) == cardIdsOfDeck(sortDeckCards(cards))
KcgOfDeck(cards) == encodeKcgDeckCode(IdsOfDeck(cards))

\* C29: once generateDeckCodes has returned, kcgDeckCode is the empty
\* string or the KCG encoding of the deck as it was at that call; when the
\* encoding fails, kcgDeckCode does not keep the code of an earlier deck
C29_NoStaleKcgCode ==
    lastCall.fn = "generateDeckCodes" =>
        \/ kcgDeckCode = <<>>
        \/ /\ KcgOfDeck(generatedFor).ok
           /\ kcgDeckCode = KcgOfDeck(generatedFor).value

\* generateDeckCodes has returned with an error of type generation for a
\* deck that cannot be encoded; slashDeckCode is the code of that deck,
\* while kcgDeckCode is a code that decodes to the cards of another deck
C29_StaleKcgCode ==
    /\ lastCall.fn = "generateDeckCodes"
    /\ codeError = "generation"
    /\ ~KcgOfDeck(generatedFor).ok
    /\ slashDeckCode = JoinSlash(IdsOfDeck(generatedFor))
    /\ kcgDeckCode # <<>>
    /\ decodeKcgDeckCode(kcgDeckCode).ok
    /\ decodeKcgDeckCode(kcgDeckCode).value # IdsOfDeck(generatedFor)

\* when the encoding succeeds, or the deck is empty, both codes are the
\* codes of the deck as it was at the call
FreshCodesWithoutError ==
    (lastCall.fn = "generateDeckCodes" /\ codeError = "none") =>
        /\ slashDeckCode = JoinSlash(IdsOfDeck(generatedFor))
        /\ \/ generatedFor = <<>> /\ kcgDeckCode = <<>>
           \/ /\ generatedFor # <<>>
              /\ KcgOfDeck(generatedFor).ok
              /\ kcgDeckCode = KcgOfDeck(generatedFor).value

-----------------------------------------------------------------------------
(* Saving of the deck store: suppressSave, the watchers, the debounced saves *)

\* what local storage holds when the store is created: no deck, a deck of
\* the catalog, a deck with a card the catalog lacks, a count above the
\* maximum; the default name, a name, a blank name
SavedDecks ==
    { <<>>,
      << [id |-> CardId(<<"A">>, "A", <<"1">>), count |-> 2] >>,
      << [id |-> CardId(<<"A">>, "A", <<"1">>), count |-> 1],
         [id |-> CardId(<<"Z">>, "D", <<"7">>), count |-> 1] >>,
      << [id |-> CardId(<<"e", "x">>, "A", <<"1">>), count |-> MAX_CARD_COPIES + 1] >> }
SavedNames == { DEFAULT_DECK_NAME, <<"m", "y">>, <<" ">> }

SaveInit ==
    /\ AsyncIdle
    /\ PackIdle
    /\ pc = "load"
    /\ catalog = StoreCatalog
    /\ deckCards = <<>>
    /\ deckCardsStorage \in SavedDecks
    /\ deckNameStorage \in SavedNames
    /\ loadedState = "none"
    /\ CodeStoreIdle
    /\ SaveIdle
    /\ cardIds = <<>>
    /\ kcgCode = NoResult
    /\ rawCode = <<>>
    /\ kcgDecoded = NoResult
    /\ slashCode = <<>>
    /\ slashResult = NoResult
    /\ adapterResult = NoResult
    /\ lastOp = NoResult

SaveNext ==
    \/ InitializeDeck
    \/ AddCardToDeck
    \/ RemoveCardFromDeck
    \/ ResetDeckCards
    \/ ResetDeckName
    \/ SetDeckName
    \/ FlushJobs
    \/ DebouncedSave
    \/ DebouncedSaveName

SpecSave == SaveInit /\ [][SaveNext]_vars

\* the functions that change the deck or the name under suppressSave
Suppressing == {"initializeDeck", "resetDeckCards", "resetDeckName"}

\* C30: a change of deckCards or deckName made inside initializeDeck,
\* resetDeckCards or resetDeckName never leads to a debounced save to local
\* storage: no debounced save is pending for such a change, and none has
\* run for one
C30_SaveSuppressed ==
    /\ debounced.deckCards.origin \notin Suppressing
    /\ debounced.deckName.origin \notin Suppressing
    /\ lastSave.origin \notin Suppressing

\* the store was created over a saved deck that holds a card the catalog
\* lacks; initializeDeck loaded the deck without that card, its watcher
\* callback ran with suppressSave false, and the debounced save has
\* written the loaded deck over the saved one
C30_SuppressedChangeSaved ==
    /\ pc = "loaded"
    /\ storeSteps = 0
    /\ lastSave = [key |-> "deckCards", origin |-> "initializeDeck"]
    /\ suppressSave = FALSE
    /\ deckCards # <<>>
    /\ deckCardsStorage = serializeDeckCards(deckCards)
    /\ deckCardsStorage = << [id |-> CardId(<<"A">>, "A", <<"1">>), count |-> 1] >>

\* the same for the name: the saved name was loaded by initializeDeck and
\* saved again
C30_SuppressedNameSaved ==
    /\ lastSave = [key |-> "deckName", origin |-> "initializeDeck"]
    /\ storeSteps = 0
    /\ deckNameStorage = deckName

\* and for resetDeckCards
C30_ResetSaved ==
    lastSave = [key |-> "deckCards", origin |-> "resetDeckCards"]

\* the flag is set and set back inside one synchronous function, so no
\* watcher callback and no timer ever runs while it is set
FlagNeverSeenSet == suppressSave = FALSE

====
